---------------------------- MODULE Spec2Model ----------------------------
(***************************************************************************)
(* Model of the configuration governance engine                            *)
(* (apps/ai_trade_web/backend/app/services/governance.py, class            *)
(* GovernanceService): governance state, drafts, preview (diff, risk       *)
(* flags, publish guard), publish, backups and rollback, audit log.        *)
(*                                                                         *)
(* Time is the wall clock in whole seconds: _now_iso and _now_compact      *)
(* both format the clock truncated to the second, so a timestamp is the    *)
(* integer second.  A profile text is a sequence of mapping lines          *)
(* [indent, key, val]; texts are named by handles (strings) and the file   *)
(* system stores handles, so equality of handles is equality of bytes.     *)
(* SHA-256 is modelled as an injective tag on its argument.                *)
(***************************************************************************)
EXTENDS Integers, Sequences, FiniteSets, TLC

VARIABLES
    now,           \* wall clock, whole seconds (datetime.now)
    stateFile,     \* control_root/state.json: NoState or the state record
    verdict,       \* report store: [runtime, overall] latest verdicts
    drafts,        \* control_root/drafts: draft_id -> draft record
    live,          \* config_root: profile name -> text handle or Absent
    backups,       \* control_root/backups: backup name -> text handle
    last_publish,  \* control_root/last_publish.json
    audit,         \* control_root/audit.log: sequence of events
    held,          \* the caller's copy of the last preview's publish guard
    ret,           \* the last call and its outcome
    inflight,      \* caller -> the call it is executing, between two file steps
    tmpFiles,      \* the "<name>.tmp" files on disk: path -> content
    partial,       \* paths of the files that hold a half-written content
    settings       \* the arguments the service was constructed with

callVars == <<inflight, tmpFiles, partial>>
vars == <<now, stateFile, verdict, drafts, live, backups, last_publish, audit, held, ret,
          inflight, tmpFiles, partial, settings>>

(***************************************************************************)
(* Bounds of the exploration.                                              *)
(***************************************************************************)
MaxClock == 1
MaxDrafts == 1
MaxUpdates == 2
MaxApprovals == 2
MaxPublishes == 1
MaxRollbacks == 1
MaxValidations == 1
MaxWriters == 2
MaxCreates == 2
MaxRepublishes == 2

(***************************************************************************)
(* Service configuration (dataclass defaults) and limits in the code.      *)
(***************************************************************************)
\* constructor arguments of the service.  DefaultSettings is the dataclass
\* default for the approvals; for the cooldown (180 in the dataclass, the
\* deployment's setting in main.py) it is one second, so that the cooldown
\* both runs and elapses within MaxClock.
default_high_risk_required_approvals == settings.default_high_risk_required_approvals
default_high_risk_cooldown_seconds == settings.default_high_risk_cooldown_seconds
DefaultSettings ==
    [default_high_risk_required_approvals |-> 2,
     default_high_risk_cooldown_seconds |-> 1]
MinRequiredApprovals == 2
MaxRequiredApprovals == 5
MaxCooldownSeconds == 86400

Actors == {"alice", "bob"}
Profiles == {"p1.yaml", "p2.yaml"}
Absent == "~absent"
NoState == [absent |-> TRUE]
NoPublish == [published |-> FALSE]
NoPreview == [seen |-> FALSE, confirm_phrase |-> <<>>, preview_digest |-> [none |-> TRUE]]
NoValue == [t |-> "none"]

(***************************************************************************)
(* Profile texts.  A line is [indent, key, val]; val = NoValue for a line  *)
(* "key:" that opens a nested mapping, else the scalar written after the   *)
(* colon, tagged with the type _parse_scalar gives it.                     *)
(***************************************************************************)
IntV(n) == [t |-> "int", v |-> n]
BoolV(b) == [t |-> "bool", v |-> b]
StrV(s) == [t |-> "str", v |-> s]
FloatV(n) == [t |-> "float", v |-> n]
L(i, k, v) == [indent |-> i, key |-> k, val |-> v]
\* a line whose text after the colon is not the plain spelling of its scalar
\* (a trailing comment, quotes, capitals)
LT(i, k, v, text) == [indent |-> i, key |-> k, val |-> v, text |-> text]

ProfileText(id, testnet, notional) ==
    <<L(0, "system", NoValue), L(2, "id", StrV(id)),
      L(0, "exchange", NoValue)>>
    \o (IF testnet THEN <<L(2, "testnet", BoolV(TRUE))>> ELSE <<>>)
    \o <<L(0, "risk", NoValue), L(2, "max_abs_notional_usd", IntV(notional)),
         L(0, "execution", NoValue), L(2, "max_order_notional", IntV(50)),
         L(0, "strategy", NoValue), L(2, "signal_notional_usd", IntV(10))>>

\* every required section, and in exchange both "demo_trading: true  # paper"
\* and "testnet: true"
BothText ==
    <<L(0, "system", NoValue), L(2, "id", StrV("new")),
      L(0, "exchange", NoValue),
      LT(2, "demo_trading", BoolV(TRUE), "true  # paper"),
      L(2, "testnet", BoolV(TRUE)),
      L(0, "risk", NoValue), L(2, "max_abs_notional_usd", IntV(100)),
      L(0, "execution", NoValue), L(2, "max_order_notional", IntV(50)),
      L(0, "strategy", NoValue), L(2, "signal_notional_usd", IntV(10))>>

Contents == {"base", "low", "high", "bad", "both", "step", "double", "zero"}

Lines(c) ==
    CASE c = "base" -> ProfileText("old", FALSE, 100)
      [] c = "low"  -> ProfileText("new", FALSE, 110)
      [] c = "high" -> ProfileText("new", TRUE, 250)
      [] c = "bad"  -> <<L(0, "system", NoValue), L(2, "id", StrV("bad"))>>
      [] c = "both" -> BothText
      [] c = "step" -> ProfileText("new", FALSE, 190)
      [] c = "double" -> ProfileText("new", FALSE, 250)
      [] c = "zero" -> ProfileText("new", FALSE, 0)
      [] OTHER      -> <<>>

Sha256(text) == [sha256 |-> text]

----------------------------------------------------------------------------
(***************************************************************************)
(* Governance state.                                                       *)
(***************************************************************************)
Max(a, b) == IF a >= b THEN a ELSE b
Min(a, b) == IF a <= b THEN a ELSE b

default_state ==
    [read_only_mode |-> FALSE,
     publish_frozen |-> FALSE,
     require_latest_pass |-> TRUE,
     allow_pass_with_actions |-> FALSE,
     high_risk_two_man_rule |-> TRUE,
     high_risk_required_approvals |-> Max(2, default_high_risk_required_approvals),
     high_risk_cooldown_seconds |-> Max(0, default_high_risk_cooldown_seconds),
     updated_at_utc |-> now]

\* get_state: the state it returns, and the file it leaves behind.
get_state == IF stateFile = NoState THEN default_state ELSE stateFile

\* a state.json that json.loads rejects, or that holds no object
CorruptState == [corrupt |-> TRUE]

\* the GovernanceError get_state raises on such a file, "ok" when it returns
get_state_error ==
    IF stateFile = CorruptState THEN "error:state_json_invalid" ELSE "ok"


----------------------------------------------------------------------------
(***************************************************************************)
(* Validation of a profile text.                                           *)
(***************************************************************************)
RequiredSections == {"system", "exchange", "risk", "execution", "strategy"}

HasLine(lines, k, v) == \E i \in 1..Len(lines) : lines[i].key = k /\ lines[i].val = v

\* re.search(r"(?m)^\s*<k>\s*:\s*true\s*$", content): after the colon the line
\* holds the word true and nothing else
HasTrueLine(lines, k) ==
    \E i \in 1..Len(lines) :
        /\ lines[i].key = k
        /\ lines[i].val = BoolV(TRUE)
        /\ "text" \in DOMAIN lines[i] => lines[i].text = "true"

required_section_checks(content) ==
    LET lines == Lines(content)
        missing == {s \in RequiredSections : ~HasLine(lines, s, NoValue)}
    IN [missing_sections |-> missing,
        has_required_sections |-> missing = {},
        conflict_demo_and_testnet |->
            HasTrueLine(lines, "demo_trading") /\ HasTrueLine(lines, "testnet")]

ValidationOf ==
    [c \in Contents |->
        LET checks == required_section_checks(c)
        IN [ok |-> checks.has_required_sections /\ ~checks.conflict_demo_and_testnet,
            checks |-> checks]]

validate_config_text(content) == ValidationOf[content]

(***************************************************************************)
(* Scalar-path extraction: the indentation stack scanner.                  *)
(***************************************************************************)
NullV == [t |-> "null"]
Put(f, k, v) == [x \in (DOMAIN f) \cup {k} |-> IF x = k THEN v ELSE f[x]]
Get(f, k) == IF k \in DOMAIN f THEN f[k] ELSE NullV

RECURSIVE PopStack(_, _)
PopStack(stack, indent) ==
    IF stack # <<>> /\ indent <= stack[Len(stack)].indent
    THEN PopStack(SubSeq(stack, 1, Len(stack) - 1), indent)
    ELSE stack

RECURSIVE JoinPath(_, _)
JoinPath(stack, key) ==
    IF stack = <<>> THEN key
    ELSE stack[1].key \o "." \o JoinPath(Tail(stack), key)

RECURSIVE ScanLines(_, _, _, _)
ScanLines(lines, i, stack, values) ==
    IF i > Len(lines) THEN values
    ELSE LET ln == lines[i]
             st == PopStack(stack, ln.indent)
         IN IF ln.val = NoValue
            THEN ScanLines(lines, i + 1,
                           Append(st, [indent |-> ln.indent, key |-> ln.key]), values)
            ELSE ScanLines(lines, i + 1, st, Put(values, JoinPath(st, ln.key), ln.val))

\* the scan of every text of the model, computed once ("" when the file is absent)
ScalarPaths ==
    [c \in Contents \cup {Absent} |->
        IF c = Absent THEN <<>> ELSE ScanLines(Lines(c), 1, <<>>, <<>>)]

extract_scalar_paths(content) == ScalarPaths[content]

(***************************************************************************)
(* Python floats: IEEE 754 binary64, round to nearest, ties to even.       *)
(* A natural number of any size is its bits, lowest first, no leading      *)
(* zero bit; a float is sign * m * 2^e with m of MantissaBits bits (or     *)
(* zero).  Exponent range and subnormals are left out.                     *)
(***************************************************************************)
MantissaBits == 53

\* the element of a one-element set; The({e(x) : x \in {v}}) is e of the value v,
\* with v computed once
The(S) == CHOOSE x \in S : TRUE

RECURSIVE BitsOf(_)
BitsOf(n) == IF n = 0 THEN <<>> ELSE <<n % 2>> \o BitsOf(n \div 2)

\* a without its leading zero bits
Trim(a) ==
    SubSeq(a, 1, Len(a) - (CHOOSE k \in 0..Len(a) :
                               /\ k = Len(a) \/ a[Len(a) - k] = 1
                               /\ \A j \in 0..(k - 1) : a[Len(a) - j] = 0))

Bit(a, i) == IF i <= Len(a) THEN a[i] ELSE 0

ShiftLeft(a, k) == IF a = <<>> \/ k <= 0 THEN a ELSE [i \in 1..k |-> 0] \o a

\* bits lo..hi of a + b + carry, and the carry out
RECURSIVE AddRange(_, _, _, _, _)
AddRange(a, b, lo, hi, carry) ==
    IF lo = hi
    THEN [bits |-> <<(Bit(a, lo) + Bit(b, lo) + carry) % 2>>,
          carry |-> (Bit(a, lo) + Bit(b, lo) + carry) \div 2]
    ELSE The({ The({ [bits |-> low.bits \o high.bits, carry |-> high.carry] :
                     high \in {AddRange(a, b, (lo + hi) \div 2 + 1, hi, low.carry)} }) :
               low \in {AddRange(a, b, lo, (lo + hi) \div 2, carry)} })

\* a + b, for a and b not zero
BigAdd(a, b) ==
    The({ IF sum.carry = 1 THEN Append(sum.bits, 1) ELSE sum.bits :
          sum \in {AddRange(a, b, 1, IF Len(a) >= Len(b) THEN Len(a) ELSE Len(b), 0)} })

\* bits lo..hi of a - b - borrow, and the borrow out
RECURSIVE SubRange(_, _, _, _, _)
SubRange(a, b, lo, hi, borrow) ==
    IF lo = hi
    THEN [bits |-> <<(Bit(a, lo) - Bit(b, lo) - borrow + 2) % 2>>,
          borrow |-> IF Bit(a, lo) - Bit(b, lo) - borrow < 0 THEN 1 ELSE 0]
    ELSE The({ The({ [bits |-> low.bits \o high.bits, borrow |-> high.borrow] :
                     high \in {SubRange(a, b, (lo + hi) \div 2 + 1, hi, low.borrow)} }) :
               low \in {SubRange(a, b, lo, (lo + hi) \div 2, borrow)} })

\* a - b for a >= b > 0
BigSub(a, b) == The({ Trim(bits) : bits \in {SubRange(a, b, 1, Len(a), 0).bits} })

\* -1, 0, 1 as a < b, a = b, a > b
BigCompare(a, b) ==
    IF Len(a) # Len(b) THEN (IF Len(a) > Len(b) THEN 1 ELSE 0 - 1)
    ELSE The({ IF same = Len(a) THEN 0
               ELSE IF a[Len(a) - same] > b[Len(a) - same] THEN 1 ELSE 0 - 1 :
               same \in {CHOOSE k \in 0..Len(a) :
                             /\ k = Len(a) \/ a[Len(a) - k] # b[Len(a) - k]
                             /\ \A j \in 0..(k - 1) : a[Len(a) - j] = b[Len(a) - j]} })

\* long division: one step takes the next lower bit of n into the remainder
DivStep(n, d, i, st) ==
    The({ IF BigCompare(r2, d) >= 0
          THEN [q |-> <<1>> \o st.q, r |-> BigSub(r2, d)]
          ELSE [q |-> <<0>> \o st.q, r |-> r2] :
          r2 \in {IF st.r = <<>> /\ n[i] = 0 THEN <<>> ELSE <<n[i]>> \o st.r} })

\* the steps for the bits hi down to lo of n
RECURSIVE DivRange(_, _, _, _, _)
DivRange(n, d, lo, hi, st) ==
    IF lo = hi THEN DivStep(n, d, lo, st)
    ELSE The({ DivRange(n, d, lo, (lo + hi) \div 2, upper) :
               upper \in {DivRange(n, d, (lo + hi) \div 2 + 1, hi, st)} })

\* quotient and remainder of n / d, for n > 0
BigDivMod(n, d) ==
    The({ [q |-> Trim(st.q), r |-> st.r] :
          st \in {DivRange(n, d, 1, Len(n), [q |-> <<>>, r |-> <<>>])} })

RECURSIVE Pow10(_)
Pow10(k) ==
    IF k = 0 THEN <<1>>
    ELSE The({ BigAdd(ShiftLeft(p, 3), ShiftLeft(p, 1)) : p \in {Pow10(k - 1)} })

FloatZero == [sign |-> 0, m |-> <<>>, e |-> 0]

\* the float sign * q * 2^e of a quotient q of MantissaBits bits, rounded by
\* the remainder r of the division by d
RoundQuotient(sign, q, r, d, e) ==
    The({ IF Len(m) > MantissaBits
          THEN [sign |-> sign, m |-> SubSeq(m, 2, Len(m)), e |-> e + 1]
          ELSE [sign |-> sign, m |-> m, e |-> e] :
          m \in {The({ IF c > 0 \/ (c = 0 /\ q[1] = 1)
                       THEN The({ BigAdd(x, <<1>>) : x \in {q} })
                       ELSE q :
                       c \in {The({ BigCompare(r2, d) : r2 \in {ShiftLeft(r, 1)} })} })} })

\* the float nearest to sign * (num / den) * 2^e0, for num > 0: the shift s
\* gives a quotient of MantissaBits bits or one more, and s - 1 then gives
\* MantissaBits bits
RoundRatio(sign, num, den, e0) ==
    The({ The({ The({ RoundQuotient(sign, qr.q, qr.r, ShiftLeft(d, 0 - s), e0 - s) :
                      qr \in {BigDivMod(ShiftLeft(n, s), ShiftLeft(d, 0 - s))} }) :
                s \in {The({ IF BigCompare(ShiftLeft(n, s0),
                                           ShiftLeft(ShiftLeft(d, 0 - s0), MantissaBits)) >= 0
                             THEN s0 - 1 ELSE s0 :
                             s0 \in {MantissaBits - (Len(n) - Len(d))} })} }) :
          n \in {num}, d \in {den} })

\* float(n) of an int
float_of_int(n) ==
    IF n = 0 THEN FloatZero
    ELSE RoundRatio(IF n > 0 THEN 1 ELSE 0 - 1, BitsOf(IF n > 0 THEN n ELSE 0 - n), <<1>>, 0)

\* float(text) of a decimal literal: n / 10^k
float_of_decimal(n, k) ==
    IF n = 0 THEN FloatZero
    ELSE RoundRatio(IF n > 0 THEN 1 ELSE 0 - 1, BitsOf(IF n > 0 THEN n ELSE 0 - n),
                    Pow10(k), 0)

\* the magnitudes of x and y on the lower of the two exponents, and how they
\* compare
Aligned(x, y) ==
    The({ [a |-> a, b |-> b, e |-> e, c |-> BigCompare(a, b)] :
          a \in {ShiftLeft(x.m, x.e - (IF x.e <= y.e THEN x.e ELSE y.e))},
          b \in {ShiftLeft(y.m, y.e - (IF x.e <= y.e THEN x.e ELSE y.e))},
          e \in {IF x.e <= y.e THEN x.e ELSE y.e} })

\* x - y, then rounded
FloatSub(x0, y0) ==
    The({ IF x.sign = 0 THEN [y EXCEPT !.sign = 0 - y.sign]
          ELSE IF y.sign = 0 THEN x
          ELSE The({ IF x.sign = y.sign /\ al.c = 0 THEN FloatZero
                     ELSE RoundRatio(IF x.sign # y.sign \/ al.c > 0 THEN x.sign ELSE 0 - x.sign,
                                     IF x.sign # y.sign THEN BigAdd(al.a, al.b)
                                     ELSE IF al.c > 0 THEN BigSub(al.a, al.b)
                                     ELSE BigSub(al.b, al.a),
                                     <<1>>, al.e) :
                     al \in {Aligned(x, y)} }) :
          x \in {x0}, y \in {y0} })

\* x / y for y # 0, then rounded
FloatDiv(x0, y0) ==
    The({ IF x.sign = 0 THEN FloatZero
          ELSE RoundRatio(x.sign * y.sign, x.m, y.m, x.e - y.e) :
          x \in {x0}, y \in {y0} })

\* x >= y
FloatGe(x0, y0) ==
    The({ IF x.sign # y.sign THEN x.sign > y.sign
          ELSE IF x.sign = 0 THEN TRUE
          ELSE IF x.sign = 1 THEN Aligned(x, y).c >= 0
          ELSE Aligned(x, y).c <= 0 :
          x \in {x0}, y \in {y0} })

(***************************************************************************)
(* _parse_scalar: the scalar written after a colon, as a word, an integer  *)
(* literal n or a decimal literal n / 10^k.                                *)
(***************************************************************************)
WordLit(w) == [lit |-> "word", w |-> w]
IntLit(n) == [lit |-> "int", n |-> n]
DecLit(n, k) == [lit |-> "decimal", n |-> n, k |-> k]

parse_scalar(raw) ==
    IF raw.lit = "word"
    THEN (IF raw.w \in {"true", "false"} THEN BoolV(raw.w = "true")
          ELSE IF raw.w \in {"null", "~"} THEN NullV
          ELSE StrV(raw.w))
    ELSE IF raw.lit = "int" THEN IntV(raw.n)
    ELSE FloatV(float_of_decimal(raw.n, raw.k))

\* the scalar paths of a text given as path -> literal
ParsedPaths(texts) == [k \in DOMAIN texts |-> parse_scalar(texts[k])]

(***************************************************************************)
(* Risk flags.                                                             *)
(***************************************************************************)
NumericLimitKeys ==
    <<"risk.max_abs_notional_usd", "execution.max_order_notional",
      "strategy.signal_notional_usd">>
EnvironmentToggleKeys == <<"exchange.testnet", "exchange.demo_trading">>

\* _as_float: None for a bool, for None and for a string that is not a
\* number (no string of the model is one), else the float of the number
NoFloat == [some |-> FALSE]
as_float(value) ==
    IF value.t = "int" THEN [some |-> TRUE, v |-> float_of_int(value.v)]
    ELSE IF value.t = "float" THEN [some |-> TRUE, v |-> value.v]
    ELSE NoFloat

\* the literals 1.0 and 0.2 of the comparisons, by severity
RatioOf == [severity \in {"HIGH", "MEDIUM"} |->
               float_of_decimal(IF severity = "HIGH" THEN 10 ELSE 2, 1)]
RatioHigh == RatioOf["HIGH"]
RatioMedium == RatioOf["MEDIUM"]

\* ==  between two scalars: bool and int compare as integers, and either of
\* them equals the float that is exactly its value
PyInt(value) == IF value.t = "bool" THEN (IF value.v THEN 1 ELSE 0) ELSE value.v
PyEq(a, b) ==
    IF a = b THEN TRUE
    ELSE IF a.t = b.t THEN FALSE
    ELSE IF {a.t, b.t} \subseteq {"bool", "int"} THEN PyInt(a) = PyInt(b)
    ELSE IF {a.t, b.t} \subseteq {"bool", "int", "float"}
         THEN The({ The({ x.v = float_of_int(PyInt(n)) : n \in {a, b} \ {x} }) :
                    x \in {y \in {a, b} : y.t = "float"} })
    ELSE FALSE

NumericFlag(key, before, after) ==
    The({ IF ~old.some \/ ~new.some THEN <<>>
          ELSE IF old.v.sign <= 0 THEN <<>>
          ELSE The({ The({ IF severity = "NONE" THEN <<>>
                           ELSE <<[key |-> key, severity |-> severity,
                                   reason |-> IF severity = "HIGH"
                                              THEN "numeric_limit_increase_ge_100pct"
                                              ELSE "numeric_limit_increase_ge_20pct",
                                   before |-> FloatV(old.v), after |-> FloatV(new.v)]>> :
                           severity \in {IF FloatGe(delta_ratio, RatioHigh) THEN "HIGH"
                                         ELSE IF FloatGe(delta_ratio, RatioMedium)
                                              THEN "MEDIUM"
                                         ELSE "NONE"} }) :
                     delta_ratio \in {FloatDiv(FloatSub(new.v, old.v), old.v)} }) :
          old \in {as_float(Get(before, key))}, new \in {as_float(Get(after, key))} })

ToggleFlag(key, before, after) ==
    The({ IF ~PyEq(old_value, new_value)
          THEN <<[key |-> key, severity |-> "HIGH", reason |-> "environment_toggle_changed",
                  before |-> old_value, after |-> new_value]>>
          ELSE <<>> :
          old_value \in {Get(before, key)}, new_value \in {Get(after, key)} })

\* the two loops over the keys, from the i-th key on
RECURSIVE NumericFlags(_, _, _)
NumericFlags(i, before, after) ==
    IF i > Len(NumericLimitKeys) THEN <<>>
    ELSE The({ flag \o NumericFlags(i + 1, before, after) :
               flag \in {NumericFlag(NumericLimitKeys[i], before, after)} })

RECURSIVE ToggleFlags(_, _, _)
ToggleFlags(i, before, after) ==
    IF i > Len(EnvironmentToggleKeys) THEN <<>>
    ELSE The({ flag \o ToggleFlags(i + 1, before, after) :
               flag \in {ToggleFlag(EnvironmentToggleKeys[i], before, after)} })

risk_flags_from_diff(before, after) ==
    The({ NumericFlags(1, b, a) \o ToggleFlags(1, b, a) : b \in {before}, a \in {after} })

scalar_diff(before, after) ==
    LET added == {[key |-> k, after |-> after[k]] : k \in (DOMAIN after) \ (DOMAIN before)}
        changed == {[key |-> k, before |-> before[k], after |-> after[k]] :
                       k \in {x \in (DOMAIN after) \cap (DOMAIN before) :
                                ~PyEq(before[x], after[x])}}
        removed == {[key |-> k, before |-> before[k]] : k \in (DOMAIN before) \ (DOMAIN after)}
    IN [counts |-> [before_scalar_count |-> Cardinality(DOMAIN before),
                    after_scalar_count |-> Cardinality(DOMAIN after),
                    added_count |-> Cardinality(added),
                    removed_count |-> Cardinality(removed),
                    changed_count |-> Cardinality(changed)],
        added |-> added, removed |-> removed, changed |-> changed]


----------------------------------------------------------------------------
(***************************************************************************)
(* Approvals of a draft and the publish guard.                             *)
(***************************************************************************)
\* list.sort(key = approved_at_utc): a stable sort, as insertion from the left
RECURSIVE InsertByTime(_, _)
InsertByTime(sorted, item) ==
    IF sorted = <<>> THEN <<item>>
    ELSE IF sorted[Len(sorted)].approved_at_utc <= item.approved_at_utc
         THEN Append(sorted, item)
         ELSE Append(InsertByTime(SubSeq(sorted, 1, Len(sorted) - 1), item),
                     sorted[Len(sorted)])

RECURSIVE SortByTime(_)
SortByTime(items) ==
    IF items = <<>> THEN <<>>
    ELSE InsertByTime(SortByTime(SubSeq(items, 1, Len(items) - 1)), items[Len(items)])

draft_approvals(draft) == SortByTime(draft.approvals)

ActorsOf(approvals) == {approvals[i].actor : i \in 1..Len(approvals)}

high_risk(risk_flags) == \E i \in 1..Len(risk_flags) : risk_flags[i].severity = "HIGH"

required_approval_count(st) ==
    Max(MinRequiredApprovals, Min(MaxRequiredApprovals, st.high_risk_required_approvals))

cooldown_seconds(st) == Max(0, Min(MaxCooldownSeconds, st.high_risk_cooldown_seconds))

\* the quorum test off by one
approval_satisfied_off_by_one(st, approvals, enforced) ==
    IF ~enforced THEN TRUE
    ELSE Cardinality(ActorsOf(approvals)) >= required_approval_count(st) - 1

approval_satisfied(st, approvals, enforced) ==
    IF ~enforced THEN TRUE
    ELSE Cardinality(ActorsOf(approvals)) >= required_approval_count(st)

\* the cooldown measured from the earliest stored approval
cooldown_remaining_from_first(st, approvals, enforced) ==
    IF enforced /\ approvals # <<>> /\ cooldown_seconds(st) > 0
    THEN Max(0, cooldown_seconds(st) - (now - approvals[1].approved_at_utc))
    ELSE 0

cooldown_remaining_seconds(st, approvals, enforced) ==
    IF enforced /\ approvals # <<>> /\ cooldown_seconds(st) > 0
    THEN Max(0, cooldown_seconds(st) - (now - approvals[Len(approvals)].approved_at_utc))
    ELSE 0

\* a digest that also covers the time of the preview
preview_digest_with_time(draft_id, diff, risk_flags) ==
    Sha256([draft_id |-> draft_id, diff |-> diff, risk_flags |-> risk_flags,
            at |-> now])

preview_digest(draft_id, diff, risk_flags) ==
    Sha256([draft_id |-> draft_id, diff |-> diff, risk_flags |-> risk_flags])

ConfirmPhrase(draft_id) == <<"PUBLISH", draft_id>>

\* enforcement that ignores the two-man switch of the state
high_risk_enforced_without_switch(st, risk_flags) == high_risk(risk_flags)

high_risk_enforced(st, risk_flags) == high_risk(risk_flags) /\ st.high_risk_two_man_rule

build_publish_guard(draft_id, st, diff, risk_flags, approvals) ==
    LET enforced == high_risk_enforced(st, risk_flags)
    IN [confirm_phrase |-> ConfirmPhrase(draft_id),
        preview_digest |-> preview_digest(draft_id, diff, risk_flags),
        high_risk_enforced |-> enforced,
        required_approval_count |-> required_approval_count(st),
        current_approval_count |-> Cardinality(ActorsOf(approvals)),
        approval_satisfied |-> approval_satisfied(st, approvals, enforced),
        cooldown_seconds |-> IF enforced THEN cooldown_seconds(st) ELSE 0,
        cooldown_remaining_seconds |-> cooldown_remaining_seconds(st, approvals, enforced),
        latest_approval_at_utc |->
            IF approvals # <<>> THEN approvals[Len(approvals)].approved_at_utc ELSE -1,
        approved_actors |-> ActorsOf(approvals)]

risk_level(risk_flags) ==
    IF high_risk(risk_flags) THEN "HIGH"
    ELSE IF \E i \in 1..Len(risk_flags) : risk_flags[i].severity = "MEDIUM" THEN "MEDIUM"
    ELSE "LOW"

\* diff and risk flags of every (live text, draft text) pair, computed once
DiffOf ==
    [b \in Contents \cup {Absent}, d \in Contents |->
        scalar_diff(extract_scalar_paths(b), extract_scalar_paths(d))]

RiskFlagsOf ==
    [b \in Contents \cup {Absent}, d \in Contents |->
        risk_flags_from_diff(extract_scalar_paths(b), extract_scalar_paths(d))]

\* a preview against the profile texts the engine started with, not against
\* the live ones
PreviewOf_against_first(draft, st, profiles) ==
    The({ [draft_id |-> draft.draft_id,
           profile_name |-> draft.profile_name,
           base_exists |-> base_content # Absent,
           diff |-> DiffOf[base_content, draft.content],
           risk_flags |-> flags,
           risk_level |-> risk_level(flags),
           approvals |-> approvals,
           publish_guard |-> build_publish_guard(draft.draft_id, st,
                                                 DiffOf[base_content, draft.content],
                                                 flags, approvals)] :
          base_content \in {IF draft.profile_name = "p1.yaml" THEN "base" ELSE Absent},
          flags \in {RiskFlagsOf[IF draft.profile_name = "p1.yaml" THEN "base" ELSE Absent,
                                 draft.content]},
          approvals \in {draft_approvals(draft)} })

\* preview_draft of an existing draft record, against the given state record,
\* live profiles and approvals read from the draft
PreviewOf(draft, st, profiles) ==
    The({ [draft_id |-> draft.draft_id,
           profile_name |-> draft.profile_name,
           base_exists |-> base_content # Absent,
           diff |-> diff,
           risk_flags |-> flags,
           risk_level |-> risk_level(flags),
           approvals |-> approvals,
           publish_guard |-> build_publish_guard(draft.draft_id, st, diff, flags, approvals)] :
          base_content \in {profiles[draft.profile_name]},
          diff \in {DiffOf[profiles[draft.profile_name], draft.content]},
          flags \in {RiskFlagsOf[profiles[draft.profile_name], draft.content]},
          approvals \in {draft_approvals(draft)} })

\* a preview that keeps the diff and the risk flags of the caller's last one
preview_draft_cached(draft_id) ==
    IF held.seen /\ held.draft_id = draft_id
    THEN [PreviewOf(drafts[draft_id], get_state, live)
             EXCEPT !.diff = held.diff, !.risk_flags = held.risk_flags]
    ELSE PreviewOf(drafts[draft_id], get_state, live)

preview_draft(draft_id) == PreviewOf(drafts[draft_id], get_state, live)


----------------------------------------------------------------------------
(***************************************************************************)
(* Names.                                                                  *)
(***************************************************************************)
UnsafeNames == {"../x.yaml"}
MissingBackup == [ts |-> 0, profile |-> "none.yaml"]
UnsafeBackup == [ts |-> 0, profile |-> "../x.yaml"]

\* PROFILE_RE
valid_profile_name(name) == name \notin UnsafeNames

\* "/" in backup_file or ".." in backup_file
unsafe_backup_file(b) == b.profile \in UnsafeNames

Sha8(content) == [sha8 |-> content]
BogusDraftId == [ts |-> 0, h |-> Sha8("none")]
WrongPhrase == ConfirmPhrase(BogusDraftId)
NewDraftId(content) == [ts |-> now, h |-> Sha8(content)]
BackupName(target_profile) == [ts |-> now, profile |-> target_profile]

Event(actor, action, fields) == [ts_utc |-> now, actor |-> actor, action |-> action,
                                 result |-> "ok", fields |-> fields]

(***************************************************************************)
(* The clock and the collaborators outside the engine.                     *)
(***************************************************************************)
Tick ==
    /\ now' = now + 1
    /\ ret' = [op |-> "tick", result |-> "ok"]
    /\ UNCHANGED <<settings, callVars, stateFile, verdict, drafts, live, backups, last_publish, audit, held>>

\* the report store publishes new latest verdicts
SetVerdict(runtime, overall) ==
    /\ verdict' = [runtime |-> runtime, overall |-> overall]
    /\ verdict' # verdict
    /\ ret' = [op |-> "set_verdict", result |-> "ok"]
    /\ UNCHANGED <<settings, callVars, now, stateFile, drafts, live, backups, last_publish, audit, held>>

\* an edit of a live profile that voids the approvals of the drafts for it
EditLive_voiding_approvals(profile, content) ==
    /\ live[profile] # content
    /\ live' = [live EXCEPT ![profile] = content]
    /\ drafts' = [d \in DOMAIN drafts |->
                     IF drafts[d].profile_name = profile
                     THEN [drafts[d] EXCEPT !.approvals = <<>>]
                     ELSE drafts[d]]
    /\ ret' = [op |-> "edit_live", result |-> "ok"]
    /\ UNCHANGED <<settings, callVars, now, stateFile, verdict, backups, last_publish, audit, held>>

\* the config storage collaborator edits a live profile
EditLive(profile, content) ==
    /\ live[profile] # content
    /\ live' = [live EXCEPT ![profile] = content]
    /\ ret' = [op |-> "edit_live", result |-> "ok"]
    /\ UNCHANGED <<settings, callVars, now, stateFile, verdict, drafts, backups, last_publish, audit, held>>

\* state.json is left changed from outside the engine: rewritten with text
\* that is no JSON object (CorruptState), or removed (NoState)
EditState(content) ==
    /\ stateFile # content
    /\ stateFile' = content
    /\ ret' = [op |-> "edit_state", result |-> "ok"]
    /\ UNCHANGED <<settings, callVars, now, verdict, drafts, live, backups, last_publish, audit, held>>

(***************************************************************************)
(* get_state / update_state.                                               *)
(***************************************************************************)
GetState ==
    /\ stateFile' = get_state
    /\ ret' = [op |-> "get_state", result |-> "ok", state |-> get_state]
    /\ UNCHANGED <<settings, callVars, now, verdict, drafts, live, backups, last_publish, audit, held>>

BoolKeys == {"read_only_mode", "publish_frozen", "require_latest_pass",
             "allow_pass_with_actions", "high_risk_two_man_rule"}
IntKeys == {"high_risk_required_approvals", "high_risk_cooldown_seconds"}

\* a patch is a sequence of <<key, tagged value>> in the dict's order
ItemError(item) ==
    LET key == item[1]
        value == item[2]
    IN IF key \in BoolKeys
       THEN (IF value.t # "bool" THEN "invalid:must_be_bool" ELSE "ok")
       ELSE IF value.t # "int" THEN "invalid:must_be_int"
       ELSE IF key = "high_risk_required_approvals"
               /\ (value.v < MinRequiredApprovals \/ value.v > MaxRequiredApprovals)
            THEN "invalid:required_approvals_range"
       ELSE IF key = "high_risk_cooldown_seconds"
               /\ (value.v < 0 \/ value.v > MaxCooldownSeconds)
            THEN "invalid:cooldown_range"
       ELSE "ok"

RECURSIVE PatchItemsError(_)
PatchItemsError(patch) ==
    IF patch = <<>> THEN "ok"
    ELSE IF ItemError(Head(patch)) # "ok" THEN ItemError(Head(patch))
    ELSE PatchItemsError(Tail(patch))

\* update_state with only the check of the keys
update_state_error_keys_only(patch) ==
    IF \E i \in 1..Len(patch) : patch[i][1] \notin BoolKeys \cup IntKeys
    THEN "invalid:unsupported_state_fields"
    ELSE "ok"

\* an update_state that the freeze refuses like a publish
update_state_error_when_frozen(patch) ==
    IF get_state.read_only_mode THEN "blocked:read_only_mode"
    ELSE IF get_state.publish_frozen THEN "blocked:publish_frozen"
    ELSE IF \E i \in 1..Len(patch) : patch[i][1] \notin BoolKeys \cup IntKeys
    THEN "invalid:unsupported_state_fields"
    ELSE PatchItemsError(patch)

update_state_error(patch) ==
    IF \E i \in 1..Len(patch) : patch[i][1] \notin BoolKeys \cup IntKeys
    THEN "invalid:unsupported_state_fields"
    ELSE PatchItemsError(patch)

\* the patch applied to the defaults instead of the state read
RECURSIVE ApplyPatch_onto_defaults(_, _)
ApplyPatch_onto_defaults(st, patch) ==
    IF patch = <<>> THEN default_state
    ELSE [ApplyPatch_onto_defaults(st, SubSeq(patch, 1, Len(patch) - 1))
              EXCEPT ![patch[Len(patch)][1]] = patch[Len(patch)][2].v]

RECURSIVE ApplyPatch(_, _)
ApplyPatch(st, patch) ==
    IF patch = <<>> THEN st
    ELSE ApplyPatch([st EXCEPT ![Head(patch)[1]] = Head(patch)[2].v], Tail(patch))

UpdateState(patch, actor) ==
    LET err == update_state_error(patch)
        new == [ApplyPatch(get_state, patch) EXCEPT !.updated_at_utc = now]
    IN /\ ret' = [op |-> "update_state", result |-> err, patch |-> patch]
       /\ IF err = "ok"
          THEN /\ stateFile' = new
               /\ audit' = Append(audit, Event(actor, "state.update", [state |-> new]))
          ELSE /\ stateFile' = get_state
               /\ UNCHANGED audit
       /\ UNCHANGED <<settings, callVars, now, verdict, drafts, live, backups, last_publish, held>>


----------------------------------------------------------------------------
(***************************************************************************)
(* Drafts.                                                                 *)
(***************************************************************************)
NoTime == 0 - 1

read_draft_error(draft_id) ==
    IF draft_id \notin DOMAIN drafts THEN "notfound:draft" ELSE "ok"

CreateDraft(profile_name, content, actor, note) ==
    LET draft_id == NewDraftId(content)
        validation == validate_config_text(content)
        payload == [draft_id |-> draft_id,
                    profile_name |-> profile_name,
                    note |-> note,
                    actor |-> actor,
                    created_at_utc |-> now,
                    content_sha256 |-> Sha256(content),
                    content |-> content,
                    validation |-> validation,
                    validated_at_utc |-> NoTime,
                    validated_by |-> "",
                    approvals |-> <<>>]
    IN IF ~valid_profile_name(profile_name)
       THEN /\ ret' = [op |-> "create_draft", result |-> "invalid:profile_name"]
            /\ UNCHANGED <<settings, callVars, now, stateFile, verdict, drafts, live, backups,
                           last_publish, audit, held>>
       ELSE /\ drafts' = Put(drafts, draft_id, payload)
            /\ audit' = Append(audit, Event(actor, "draft.create",
                                   [draft_id |-> draft_id, profile_name |-> profile_name,
                                    validation_ok |-> validation.ok]))
            /\ ret' = [op |-> "create_draft", result |-> "ok", draft_id |-> draft_id]
            /\ UNCHANGED <<settings, callVars, now, stateFile, verdict, live, backups, last_publish, held>>

\* the record validate_draft writes, from the record it read
ValidatedDraft(draft, actor) ==
    [draft EXCEPT !.validation = validate_config_text(draft.content),
                  !.validated_at_utc = now,
                  !.validated_by = actor]

ValidateDraft(draft_id, actor) ==
    IF read_draft_error(draft_id) # "ok"
    THEN /\ ret' = [op |-> "validate_draft", result |-> read_draft_error(draft_id)]
         /\ UNCHANGED <<settings, callVars, now, stateFile, verdict, drafts, live, backups,
                        last_publish, audit, held>>
    ELSE LET new == ValidatedDraft(drafts[draft_id], actor)
         IN /\ drafts' = [drafts EXCEPT ![draft_id] = new]
            /\ audit' = Append(audit, Event(actor, "draft.validate",
                                   [draft_id |-> draft_id,
                                    validation_ok |-> new.validation.ok]))
            /\ ret' = [op |-> "validate_draft", result |-> "ok", draft_id |-> draft_id]
            /\ UNCHANGED <<settings, callVars, now, stateFile, verdict, live, backups, last_publish, held>>

\* the earlier entries of the actor kept
FilterActor_keep_all(approvals, actor) == approvals

\* Keep one latest approval entry per actor.
FilterActor(approvals, actor) == SelectSeq(approvals, LAMBDA e : e.actor # actor)

\* the record approve_draft writes, from the record it read
ApprovedDraft(draft, actor, note) ==
    [draft EXCEPT !.approvals =
        SortByTime(Append(FilterActor(draft_approvals(draft), actor),
                          [actor |-> actor, approved_at_utc |-> now, note |-> note]))]

\* the first step of preview_draft that raises, "ok" when none does; the
\* same for approve_draft, which reads the draft and later calls preview_draft
preview_error(draft_id) ==
    IF read_draft_error(draft_id) # "ok" THEN read_draft_error(draft_id)
    ELSE get_state_error

\* an approve_draft that writes the draft record after its preview
approve_writes_after_preview(draft_id, err) == err = "ok"

\* does approve_draft, ending with err, reach its write of the draft record
approve_writes(draft_id, err) == err # "notfound:draft"

ApproveDraft(draft_id, actor, note) ==
    IF read_draft_error(draft_id) # "ok"
    THEN /\ ret' = [op |-> "approve_draft", result |-> read_draft_error(draft_id)]
         /\ UNCHANGED <<settings, callVars, now, stateFile, verdict, drafts, live, backups,
                        last_publish, audit, held>>
    ELSE IF preview_error(draft_id) # "ok"
    THEN /\ drafts' = IF approve_writes(draft_id, preview_error(draft_id))
                      THEN [drafts EXCEPT ![draft_id] = ApprovedDraft(@, actor, note)]
                      ELSE drafts
         /\ ret' = [op |-> "approve_draft", result |-> preview_error(draft_id),
                    draft_id |-> draft_id, actor |-> actor, note |-> note]
         /\ UNCHANGED <<settings, callVars, now, stateFile, verdict, live, backups,
                        last_publish, audit, held>>
    ELSE LET new == ApprovedDraft(drafts[draft_id], actor, note)
             guard == PreviewOf(new, get_state, live).publish_guard
         IN /\ drafts' = [drafts EXCEPT ![draft_id] = new]
            /\ stateFile' = get_state
            /\ audit' = Append(audit, Event(actor, "draft.approve",
                                   [draft_id |-> draft_id,
                                    required_approval_count |-> guard.required_approval_count,
                                    current_approval_count |-> guard.current_approval_count]))
            /\ ret' = [op |-> "approve_draft", result |-> "ok", draft_id |-> draft_id,
                       actor |-> actor, note |-> note,
                       approval_satisfied |-> guard.approval_satisfied,
                       cooldown_remaining_seconds |-> guard.cooldown_remaining_seconds]
            /\ UNCHANGED <<settings, callVars, now, verdict, live, backups, last_publish, held>>

\* what preview_draft reads: the draft record, the live profile it targets
\* and the governance state
PreviewBasis(draft_id) ==
    [draft |-> drafts[draft_id],
     base |-> live[drafts[draft_id].profile_name],
     state |-> get_state]

\* the caller keeps the preview (held), with what it was computed from and
\* whether the same caller's previous preview was computed from the same
PreviewDraft(draft_id) ==
    IF preview_error(draft_id) # "ok"
    THEN /\ ret' = [op |-> "preview_draft", result |-> preview_error(draft_id)]
         /\ UNCHANGED <<settings, callVars, now, stateFile, verdict, drafts, live, backups,
                        last_publish, audit, held>>
    ELSE LET preview == preview_draft(draft_id)
             guard == preview.publish_guard
             read == PreviewBasis(draft_id)
         IN /\ held' = [seen |-> TRUE,
                        read |-> read,
                        again |-> held.seen /\ held.draft_id = draft_id /\ held.read = read,
                        draft_id |-> draft_id,
                        diff |-> preview.diff,
                        risk_flags |-> preview.risk_flags,
                        confirm_phrase |-> guard.confirm_phrase,
                        preview_digest |-> guard.preview_digest]
            /\ stateFile' = get_state
            /\ ret' = [op |-> "preview_draft", result |-> "ok", draft_id |-> draft_id]
            /\ UNCHANGED <<settings, callVars, now, verdict, drafts, live, backups, last_publish, audit>>


----------------------------------------------------------------------------
(***************************************************************************)
(* Publish gates.                                                          *)
(***************************************************************************)
\* the freeze check without the publish_frozen branch
require_publish_guard_read_only_only(st) ==
    IF st.read_only_mode THEN "blocked:read_only_mode" ELSE "ok"

require_publish_guard(st) ==
    IF st.read_only_mode THEN "blocked:read_only_mode"
    ELSE IF st.publish_frozen THEN "blocked:publish_frozen"
    ELSE "ok"

\* the gate without the check of the closed-loop overall status
validate_latest_gate_runtime_only(st) ==
    LET allowed == {"PASS"} \cup
                   (IF st.allow_pass_with_actions THEN {"PASS_WITH_ACTIONS"} ELSE {})
    IN IF ~st.require_latest_pass THEN "ok"
       ELSE IF Absent \in {verdict.runtime, verdict.overall} THEN "error:StoreError"
       ELSE IF verdict.runtime \notin allowed THEN "blocked:runtime_verdict"
       ELSE "ok"

\* a verdict is Absent when its latest report file is missing: latest_bundle
\* then raises StoreError
validate_latest_gate(st) ==
    LET allowed == {"PASS"} \cup
                   (IF st.allow_pass_with_actions THEN {"PASS_WITH_ACTIONS"} ELSE {})
    IN IF ~st.require_latest_pass THEN "ok"
       ELSE IF Absent \in {verdict.runtime, verdict.overall} THEN "error:StoreError"
       ELSE IF verdict.runtime \notin allowed THEN "blocked:runtime_verdict"
       ELSE IF verdict.overall \notin allowed THEN "blocked:overall_status"
       ELSE "ok"

\* the guard checks without the comparison of the supplied digest
guard_error_without_digest(guard, digest, phrase) ==
    IF phrase # guard.confirm_phrase THEN "blocked:confirm_phrase"
    ELSE IF ~guard.approval_satisfied THEN "blocked:approvals"
    ELSE IF guard.cooldown_remaining_seconds > 0 THEN "blocked:cooldown"
    ELSE "ok"

\* the checks of publish_draft on the fresh preview's guard, in the code's order
guard_error(guard, digest, phrase) ==
    IF digest # guard.preview_digest THEN "blocked:preview_digest"
    ELSE IF phrase # guard.confirm_phrase THEN "blocked:confirm_phrase"
    ELSE IF ~guard.approval_satisfied THEN "blocked:approvals"
    ELSE IF guard.cooldown_remaining_seconds > 0 THEN "blocked:cooldown"
    ELSE "ok"

\* the gates with the draft looked up before the freeze flags are read
publish_error_lookup_first(draft_id, digest, phrase) ==
    IF read_draft_error(draft_id) # "ok" THEN read_draft_error(draft_id)
    ELSE IF require_publish_guard(get_state) # "ok" THEN require_publish_guard(get_state)
    ELSE IF validate_latest_gate(get_state) # "ok" THEN validate_latest_gate(get_state)
    ELSE IF guard_error(preview_draft(draft_id).publish_guard, digest, phrase) # "ok"
         THEN guard_error(preview_draft(draft_id).publish_guard, digest, phrase)
    ELSE IF ~validate_config_text(drafts[draft_id].content).ok THEN "blocked:validation"
    ELSE "ok"

\* the first gate of publish_draft that refuses, "ok" when none does
publish_error(draft_id, digest, phrase) ==
    LET st == get_state
    IN IF require_publish_guard(st) # "ok" THEN require_publish_guard(st)
       ELSE IF validate_latest_gate(st) # "ok" THEN validate_latest_gate(st)
       ELSE IF read_draft_error(draft_id) # "ok" THEN read_draft_error(draft_id)
       ELSE IF ~valid_profile_name(drafts[draft_id].profile_name)
            THEN "invalid:profile_name"
       ELSE IF guard_error(preview_draft(draft_id).publish_guard, digest, phrase) # "ok"
            THEN guard_error(preview_draft(draft_id).publish_guard, digest, phrase)
       ELSE IF ~validate_config_text(drafts[draft_id].content).ok
            THEN "blocked:validation"
       ELSE "ok"

(***************************************************************************)
(* Backups, publish and rollback.                                          *)
(***************************************************************************)
\* _backup_target: the backup directory and the audit log after it
backup_target_files(target_profile, content) ==
    Put(backups, BackupName(target_profile), content)

\* _backup_target without its audit event
backup_target_audit_silent(log, target_profile, content, actor, reason) == log

backup_target_audit(log, target_profile, content, actor, reason) ==
    Append(log, Event(actor, "config.backup",
                      [profile_name |-> target_profile,
                       backup_file |-> BackupName(target_profile),
                       reason |-> reason,
                       content_sha256 |-> Sha256(content)]))

\* a publish that never takes a backup
publish_backs_up_never(draft_id, err) == FALSE

\* the backup taken before the content is re-validated
publish_backs_up_before_validation(draft_id, err) ==
    err \in {"ok", "blocked:validation"} /\ live[drafts[draft_id].profile_name] # Absent

\* does publish_draft, ending with err, reach its backup step
publish_backs_up(draft_id, err) ==
    err = "ok" /\ live[drafts[draft_id].profile_name] # Absent

\* does publish_draft, ending with err, reach its write of the live profile
publish_writes(draft_id, err) == err = "ok"

PublishDraft(draft_id, actor, digest, phrase) ==
    LET err == publish_error(draft_id, digest, phrase)
        draft == drafts[draft_id]
        profile_name == draft.profile_name
        backs_up == publish_backs_up(draft_id, err)
        writes == publish_writes(draft_id, err)
        backup_file == IF backs_up THEN BackupName(profile_name) ELSE MissingBackup
        result == [published |-> TRUE,
                   draft_id |-> draft_id,
                   profile_name |-> profile_name,
                   published_at_utc |-> now,
                   has_backup |-> backs_up,
                   backup_file |-> backup_file,
                   content_sha256 |-> Sha256(draft.content),
                   preview_digest |-> preview_draft(draft_id).publish_guard.preview_digest]
        log == IF backs_up
               THEN backup_target_audit(audit, profile_name, live[profile_name],
                                        actor, "before_publish")
               ELSE audit
    IN /\ stateFile' = get_state
       /\ backups' = IF backs_up
                     THEN backup_target_files(profile_name, live[profile_name])
                     ELSE backups
       /\ live' = IF writes THEN [live EXCEPT ![profile_name] = draft.content] ELSE live
       /\ last_publish' = IF writes THEN result ELSE last_publish
       /\ audit' = IF writes THEN Append(log, Event(actor, "draft.publish", result)) ELSE log
       /\ ret' = IF err = "ok"
                 THEN [op |-> "publish_draft", result |-> "ok", draft_id |-> draft_id,
                       has_backup |-> backs_up, backup_file |-> backup_file]
                 ELSE [op |-> "publish_draft", result |-> err, draft_id |-> draft_id]
       /\ UNCHANGED <<settings, callVars, now, verdict, drafts, held>>

\* a rollback that also asks for the latest-run verdict
rollback_error_with_latest_gate(backup_file, target_profile) ==
    LET st == get_state
    IN IF require_publish_guard(st) # "ok" THEN require_publish_guard(st)
       ELSE IF validate_latest_gate(st) # "ok" THEN validate_latest_gate(st)
       ELSE IF ~valid_profile_name(target_profile) THEN "invalid:profile_name"
       ELSE IF unsafe_backup_file(backup_file) THEN "invalid:backup_file"
       ELSE IF backup_file \notin DOMAIN backups THEN "notfound:backup"
       ELSE "ok"

\* the first check of rollback that refuses, "ok" when none does
rollback_error(backup_file, target_profile) ==
    LET st == get_state
    IN IF require_publish_guard(st) # "ok" THEN require_publish_guard(st)
       ELSE IF ~valid_profile_name(target_profile) THEN "invalid:profile_name"
       ELSE IF unsafe_backup_file(backup_file) THEN "invalid:backup_file"
       ELSE IF backup_file \notin DOMAIN backups THEN "notfound:backup"
       ELSE "ok"

\* a rollback that never takes a backup
rollback_backs_up_never(target_profile, err) == FALSE

\* does rollback, ending with err, reach its backup step
rollback_backs_up(target_profile, err) == err = "ok" /\ live[target_profile] # Absent

Rollback(backup_file, target_profile, actor) ==
    LET err == rollback_error(backup_file, target_profile)
        rollback_content == backups[backup_file]
        backs_up == rollback_backs_up(target_profile, err)
        before_backup == IF backs_up THEN BackupName(target_profile) ELSE MissingBackup
        result == [rolled_back |-> TRUE,
                   target_profile |-> target_profile,
                   source_backup_file |-> backup_file,
                   has_before_backup |-> backs_up,
                   before_backup_file |-> before_backup,
                   rolled_back_at_utc |-> now,
                   content_sha256 |-> Sha256(rollback_content)]
        log == IF backs_up
               THEN backup_target_audit(audit, target_profile, live[target_profile],
                                        actor, "before_rollback")
               ELSE audit
    IN /\ stateFile' = get_state
       /\ backups' = IF backs_up
                     THEN backup_target_files(target_profile, live[target_profile])
                     ELSE backups
       /\ live' = IF err = "ok"
                  THEN [live EXCEPT ![target_profile] = rollback_content]
                  ELSE live
       /\ audit' = IF err = "ok" THEN Append(log, Event(actor, "config.rollback", result))
                   ELSE log
       /\ ret' = IF err = "ok"
                 THEN [op |-> "rollback", result |-> "ok",
                       source_backup_file |-> backup_file,
                       source_content |-> rollback_content,
                       target_profile |-> target_profile,
                       has_before_backup |-> backs_up,
                       before_backup_file |-> before_backup,
                       live_before |-> live[target_profile]]
                 ELSE [op |-> "rollback", result |-> err]
       /\ UNCHANGED <<settings, callVars, now, verdict, drafts, last_publish, held>>


----------------------------------------------------------------------------
(***************************************************************************)
(* Calls in flight.  A handler is a sequence of file operations; between   *)
(* two of them another caller's handler, a reader or a crash may run.      *)
(***************************************************************************)
Idle == [pc |-> "idle"]
Crashed == [pc |-> "crashed"]
Calling(pcs) == Cardinality({a \in Actors : inflight[a].pc \in pcs})
Remove(f, k) == [x \in (DOMAIN f) \ {k} |-> f[x]]

\* _write_json_atomic on a draft record: the file is replaced by the payload
write_draft_merged(draft_id, payload) ==
    LET others == SelectSeq(draft_approvals(drafts[draft_id]),
                            LAMBDA e : e.actor \notin ActorsOf(payload.approvals))
    IN Put(drafts, draft_id,
           [payload EXCEPT !.approvals = SortByTime(payload.approvals \o others)])

write_draft(draft_id, payload) == Put(drafts, draft_id, payload)

\* approve_draft up to the record it has built in memory from the file it read
ApproveRead(draft_id, actor, note) ==
    /\ inflight[actor] = Idle
    /\ read_draft_error(draft_id) = "ok"
    /\ inflight' = [inflight EXCEPT ![actor] =
                       [pc |-> "approve", draft_id |-> draft_id, note |-> note,
                        read |-> drafts[draft_id],
                        draft |-> ApprovedDraft(drafts[draft_id], actor, note)]]
    /\ ret' = [op |-> "read_draft", result |-> "ok", draft_id |-> draft_id]
    /\ UNCHANGED <<settings, now, stateFile, verdict, drafts, live, backups, last_publish,
                   audit, held, tmpFiles, partial>>

\* approve_draft from its write of the draft file to its return
ApproveWrite(actor) ==
    LET call == inflight[actor]
        guard == PreviewOf(call.draft, get_state, live).publish_guard
    IN /\ call.pc = "approve"
       /\ drafts' = write_draft(call.draft_id, call.draft)
       /\ stateFile' = get_state
       /\ audit' = Append(audit, Event(actor, "draft.approve",
                              [draft_id |-> call.draft_id,
                               required_approval_count |-> guard.required_approval_count,
                               current_approval_count |-> guard.current_approval_count]))
       /\ ret' = [op |-> "approve_draft", result |-> "ok", draft_id |-> call.draft_id,
                  actor |-> actor, note |-> call.note,
                  approval_satisfied |-> guard.approval_satisfied,
                  cooldown_remaining_seconds |-> guard.cooldown_remaining_seconds]
       /\ inflight' = [inflight EXCEPT ![actor] = Idle]
       /\ UNCHANGED <<settings, now, verdict, live, backups, last_publish, held, tmpFiles, partial>>

\* validate_draft up to the record it has built in memory from the file it read
ValidateRead(draft_id, actor) ==
    /\ inflight[actor] = Idle
    /\ read_draft_error(draft_id) = "ok"
    /\ inflight' = [inflight EXCEPT ![actor] =
                       [pc |-> "validate", draft_id |-> draft_id,
                        read |-> drafts[draft_id],
                        draft |-> ValidatedDraft(drafts[draft_id], actor)]]
    /\ ret' = [op |-> "read_draft", result |-> "ok", draft_id |-> draft_id]
    /\ UNCHANGED <<settings, now, stateFile, verdict, drafts, live, backups, last_publish,
                   audit, held, tmpFiles, partial>>

\* validate_draft from its write of the draft file to its return
ValidateWrite(actor) ==
    LET call == inflight[actor]
    IN /\ call.pc = "validate"
       /\ drafts' = write_draft(call.draft_id, call.draft)
       /\ audit' = Append(audit, Event(actor, "draft.validate",
                              [draft_id |-> call.draft_id,
                               validation_ok |-> call.draft.validation.ok]))
       /\ ret' = [op |-> "validate_draft", result |-> "ok", draft_id |-> call.draft_id]
       /\ inflight' = [inflight EXCEPT ![actor] = Idle]
       /\ UNCHANGED <<settings, now, stateFile, verdict, live, backups, last_publish, held,
                      tmpFiles, partial>>

(***************************************************************************)
(* The file operations of publish_draft.  path.write_text opens the file   *)
(* (creating or truncating it), writes and closes it; tmp.replace(path) is *)
(* one rename.  A file between open and close holds a half-written content.*)
(***************************************************************************)
Path(dir, file, tmp) == [dir |-> dir, file |-> file, tmp |-> tmp]
BackupPath(backup_file) == Path("backups", backup_file, FALSE)
LivePath(profile_name) == Path("config", [profile |-> profile_name], FALSE)
LastPublishPath == Path("control", [json |-> "last_publish"], FALSE)
\* path.with_suffix(path.suffix + ".tmp")
TmpOf(path) == [path EXCEPT !.tmp = TRUE]

\* the file a call is writing through its temporary file, and what it writes
TargetPath(call) ==
    IF call.target = "live" THEN LivePath(call.profile_name) ELSE LastPublishPath

PublishResult(call) ==
    [published |-> TRUE,
     draft_id |-> call.draft_id,
     profile_name |-> call.profile_name,
     published_at_utc |-> now,
     has_backup |-> call.has_backup,
     backup_file |-> call.backup_file,
     content_sha256 |-> Sha256(call.content),
     preview_digest |-> call.preview_digest]

\* publish_draft through its gates, up to target.exists()
PublishBegin(draft_id, actor, digest, phrase) ==
    LET err == publish_error(draft_id, digest, phrase)
    IN /\ inflight[actor] = Idle
       /\ stateFile' = get_state
       /\ IF err # "ok"
          THEN /\ ret' = [op |-> "publish_draft", result |-> err, draft_id |-> draft_id]
               /\ UNCHANGED inflight
          ELSE /\ ret' = [op |-> "publish_draft", result |-> "writing",
                          draft_id |-> draft_id]
               /\ inflight' = [inflight EXCEPT ![actor] =
                      [pc |-> "backup", draft_id |-> draft_id,
                       profile_name |-> drafts[draft_id].profile_name,
                       content |-> drafts[draft_id].content,
                       preview_digest |-> digest,
                       has_backup |-> FALSE, backup_file |-> MissingBackup,
                       target |-> "live", moved |-> FALSE, payload |-> NoValue]]
       /\ UNCHANGED <<settings, now, verdict, drafts, live, backups, last_publish, audit, held,
                      tmpFiles, partial>>

\* target.exists(), target.read_text() and, in _backup_target, the open of
\* path.write_text(content) on the backup file itself
BackupOpen(actor) ==
    LET call == inflight[actor]
        backup_file == BackupName(call.profile_name)
    IN /\ call.pc = "backup"
       /\ IF live[call.profile_name] = Absent
          THEN /\ inflight' = [inflight EXCEPT ![actor].pc = "tmp_open"]
               /\ UNCHANGED <<settings, backups, partial>>
          ELSE /\ backups' = backup_target_files(call.profile_name, live[call.profile_name])
               /\ partial' = partial \cup {BackupPath(backup_file)}
               /\ inflight' = [inflight EXCEPT ![actor] =
                                  [call EXCEPT !.pc = "backup_write",
                                               !.has_backup = TRUE,
                                               !.backup_file = backup_file]]
       /\ ret' = [op |-> "file_step", result |-> "ok"]
       /\ UNCHANGED <<settings, now, stateFile, verdict, drafts, live, last_publish, audit, held,
                      tmpFiles>>

\* the rest of path.write_text(content) on the backup file, and the audit event
BackupClose(actor) ==
    LET call == inflight[actor]
    IN /\ call.pc = "backup_write"
       /\ partial' = partial \ {BackupPath(call.backup_file)}
       /\ audit' = Append(audit, Event(actor, "config.backup",
                              [profile_name |-> call.profile_name,
                               backup_file |-> call.backup_file,
                               reason |-> "before_publish",
                               content_sha256 |-> Sha256(backups[call.backup_file])]))
       /\ inflight' = [inflight EXCEPT ![actor].pc = "tmp_open"]
       /\ ret' = [op |-> "file_step", result |-> "ok"]
       /\ UNCHANGED <<settings, now, stateFile, verdict, drafts, live, backups, last_publish, held,
                      tmpFiles>>

\* the open of tmp.write_text: "<target>.tmp" is created, or truncated when
\* another call has left or is writing one
TmpOpen(actor) ==
    LET call == inflight[actor]
        tmp == TmpOf(TargetPath(call))
        payload == IF call.target = "live" THEN call.content ELSE PublishResult(call)
    IN /\ call.pc = "tmp_open"
       /\ tmpFiles' = Put(tmpFiles, tmp, payload)
       /\ partial' = partial \cup {tmp}
       /\ inflight' = [inflight EXCEPT ![actor] =
                          [call EXCEPT !.pc = "tmp_write", !.moved = FALSE,
                                       !.payload = payload]]
       /\ ret' = [op |-> "file_step", result |-> "ok"]
       /\ UNCHANGED <<settings, now, stateFile, verdict, drafts, live, backups, last_publish,
                      audit, held>>

\* the rest of tmp.write_text: the file the call holds open is complete; it
\* is the target itself when another call has renamed it meanwhile
TmpClose(actor) ==
    LET call == inflight[actor]
        written == IF call.moved THEN TargetPath(call) ELSE TmpOf(TargetPath(call))
    IN /\ call.pc = "tmp_write"
       /\ partial' = partial \ {written}
       /\ inflight' = [inflight EXCEPT ![actor].pc = "replace"]
       /\ ret' = [op |-> "file_step", result |-> "ok"]
       /\ UNCHANGED <<settings, now, stateFile, verdict, drafts, live, backups, last_publish,
                      audit, held, tmpFiles>>

\* tmp.replace(target): the rename; FileNotFoundError when another call has
\* renamed the shared temporary file away.  After the last_publish record the
\* call audits draft.publish and returns.
Replace(actor) ==
    LET call == inflight[actor]
        target == TargetPath(call)
        tmp == TmpOf(target)
        others == {b \in Actors \ {actor} :
                      /\ inflight[b].pc = "tmp_write"
                      /\ TargetPath(inflight[b]) = target}
        result == tmpFiles[tmp]
    IN /\ call.pc = "replace"
       /\ IF tmp \notin DOMAIN tmpFiles
          THEN /\ ret' = [op |-> "publish_draft", result |-> "error:FileNotFoundError",
                          draft_id |-> call.draft_id]
               /\ inflight' = [inflight EXCEPT ![actor] = Idle]
               /\ UNCHANGED <<settings, live, last_publish, audit, tmpFiles, partial>>
          ELSE /\ tmpFiles' = Remove(tmpFiles, tmp)
               /\ partial' = IF tmp \in partial
                             THEN (partial \ {tmp}) \cup {target}
                             ELSE partial \ {target}
               /\ IF call.target = "live"
                  THEN /\ live' = [live EXCEPT ![call.profile_name] = result]
                       /\ inflight' = [b \in Actors |->
                              IF b = actor
                              THEN [call EXCEPT !.pc = "tmp_open",
                                                !.target = "last_publish"]
                              ELSE IF b \in others
                              THEN [inflight[b] EXCEPT !.moved = TRUE]
                              ELSE inflight[b]]
                       /\ ret' = [op |-> "file_step", result |-> "ok"]
                       /\ UNCHANGED <<settings, last_publish, audit>>
                  ELSE /\ last_publish' = result
                       /\ audit' = Append(audit, Event(actor, "draft.publish",
                                                       call.payload))
                       /\ inflight' = [b \in Actors |->
                              IF b = actor THEN Idle
                              ELSE IF b \in others
                              THEN [inflight[b] EXCEPT !.moved = TRUE]
                              ELSE inflight[b]]
                       /\ ret' = [op |-> "publish_draft", result |-> "ok",
                                  draft_id |-> call.draft_id,
                                  has_backup |-> call.has_backup,
                                  backup_file |-> call.backup_file]
                       /\ UNCHANGED live
       /\ UNCHANGED <<settings, now, stateFile, verdict, drafts, backups, held>>

\* the process of a call dies between two file operations
Crash(actor) ==
    /\ inflight[actor].pc \notin {"idle", "crashed"}
    /\ inflight' = [inflight EXCEPT ![actor] = Crashed]
    /\ ret' = [op |-> "crash", result |-> "ok"]
    /\ UNCHANGED <<settings, now, stateFile, verdict, drafts, live, backups, last_publish,
                   audit, held, tmpFiles, partial>>

\* the durable files a reader can open
DurablePaths ==
    {BackupPath(b) : b \in DOMAIN backups}
        \cup {LivePath(p) : p \in {q \in Profiles : live[q] # Absent}}
        \cup (IF last_publish # NoPublish THEN {LastPublishPath} ELSE {})

\* a reader (list_backups, rollback, the config loader) reads a durable file
ReadFile(path) ==
    /\ ret' = [op |-> "read_file", result |-> "ok", path |-> path,
               half_written |-> path \in partial]
    /\ UNCHANGED <<settings, now, stateFile, verdict, drafts, live, backups, last_publish,
                   audit, held, inflight, tmpFiles, partial>>


(***************************************************************************)
(* update_state of concurrent callers, in its file steps: get_state and    *)
(* the checks, then _write_json_atomic (tmp.write_text as one step, then   *)
(* tmp.replace) and the audit event.  Every caller's temporary file is     *)
(* the same "state.json.tmp".                                              *)
(***************************************************************************)
StatePath == Path("control", [json |-> "state"], FALSE)

\* the record of a call that reads the state again when it writes
update_written_reread(call) ==
    [ApplyPatch(get_state, call.patch) EXCEPT !.updated_at_utc = call.state.updated_at_utc]

\* the record a call writes at its tmp.write_text: the one it built in memory
update_written(call) == call.state

\* update_state up to the state it has patched in memory
UpdateRead(patch, actor) ==
    /\ inflight[actor] = Idle
    /\ stateFile # NoState
    /\ update_state_error(patch) = "ok"
    /\ inflight' = [inflight EXCEPT ![actor] =
                       [pc |-> "update_tmp", patch |-> patch, read |-> get_state,
                        state |-> [ApplyPatch(get_state, patch)
                                       EXCEPT !.updated_at_utc = now]]]
    /\ ret' = [op |-> "get_state", result |-> "ok", state |-> get_state]
    /\ UNCHANGED <<settings, now, stateFile, verdict, drafts, live, backups, last_publish,
                   audit, held, tmpFiles, partial>>

\* tmp.write_text(json.dumps(state)); order counts the calls that wrote earlier
UpdateTmpWrite(actor) ==
    LET call == inflight[actor]
    IN /\ call.pc = "update_tmp"
       /\ tmpFiles' = Put(tmpFiles, TmpOf(StatePath), update_written(call))
       /\ inflight' = [inflight EXCEPT ![actor] =
                          [pc |-> "update_replace", patch |-> call.patch,
                           read |-> call.read, state |-> call.state,
                           order |-> Calling({"update_replace", "updated"})]]
       /\ ret' = [op |-> "file_step", result |-> "ok"]
       /\ UNCHANGED <<settings, now, stateFile, verdict, drafts, live, backups, last_publish,
                      audit, held, partial>>

\* tmp.replace(path), FileNotFoundError when another call has renamed the
\* shared temporary file away; then the audit event and the return
UpdateReplace(actor) ==
    LET call == inflight[actor]
        tmp == TmpOf(StatePath)
    IN /\ call.pc = "update_replace"
       /\ IF tmp \notin DOMAIN tmpFiles
          THEN /\ ret' = [op |-> "update_state", result |-> "error:FileNotFoundError",
                          patch |-> call.patch]
               /\ UNCHANGED <<stateFile, tmpFiles, audit>>
          ELSE /\ stateFile' = tmpFiles[tmp]
               /\ tmpFiles' = Remove(tmpFiles, tmp)
               /\ audit' = Append(audit, Event(actor, "state.update", [state |-> call.state]))
               /\ ret' = [op |-> "update_state", result |-> "ok", patch |-> call.patch]
       /\ inflight' = [inflight EXCEPT ![actor] = [call EXCEPT !.pc = "updated"]]
       /\ UNCHANGED <<settings, now, verdict, drafts, live, backups, last_publish, held,
                      partial>>

(***************************************************************************)
(* rollback of concurrent callers, in two steps: get_state and the checks  *)
(* up to backup_path.read_text(), then the backup of the target, the write *)
(* of the target and the audit event.                                      *)
(***************************************************************************)
\* rollback up to the content it has read from the backup
RollbackBegin(backup_file, target_profile, actor) ==
    LET err == rollback_error(backup_file, target_profile)
    IN /\ inflight[actor] = Idle
       /\ stateFile' = get_state
       /\ IF err # "ok"
          THEN /\ ret' = [op |-> "rollback", result |-> err]
               /\ UNCHANGED inflight
          ELSE /\ ret' = [op |-> "rollback", result |-> "writing"]
               /\ inflight' = [inflight EXCEPT ![actor] =
                      [pc |-> "rollback_write", backup_file |-> backup_file,
                       profile_name |-> target_profile,
                       content |-> backups[backup_file]]]
       /\ UNCHANGED <<settings, now, verdict, drafts, live, backups, last_publish, audit, held,
                      tmpFiles, partial>>

\* a write step that checks the stored state again before it writes
RollbackWrite_rechecked(actor) ==
    LET call == inflight[actor]
    IN /\ call.pc = "rollback_write"
       /\ require_publish_guard(get_state) # "ok"
       /\ ret' = [op |-> "rollback", result |-> require_publish_guard(get_state)]
       /\ inflight' = [inflight EXCEPT ![actor] = Idle]
       /\ UNCHANGED <<settings, now, stateFile, verdict, drafts, live, backups, last_publish,
                      audit, held, tmpFiles, partial>>

\* target.exists(), _backup_target, tmp.write_text, tmp.replace(target) and
\* the config.rollback event
RollbackWrite(actor) ==
    LET call == inflight[actor]
        target_profile == call.profile_name
        backs_up == live[target_profile] # Absent
        before_backup == IF backs_up THEN BackupName(target_profile) ELSE MissingBackup
        result == [rolled_back |-> TRUE,
                   target_profile |-> target_profile,
                   source_backup_file |-> call.backup_file,
                   has_before_backup |-> backs_up,
                   before_backup_file |-> before_backup,
                   rolled_back_at_utc |-> now,
                   content_sha256 |-> Sha256(call.content)]
        log == IF backs_up
               THEN backup_target_audit(audit, target_profile, live[target_profile],
                                        actor, "before_rollback")
               ELSE audit
    IN /\ call.pc = "rollback_write"
       /\ backups' = IF backs_up
                     THEN backup_target_files(target_profile, live[target_profile])
                     ELSE backups
       /\ live' = [live EXCEPT ![target_profile] = call.content]
       /\ audit' = Append(log, Event(actor, "config.rollback", result))
       /\ ret' = [op |-> "rollback", result |-> "ok",
                  source_backup_file |-> call.backup_file,
                  source_content |-> call.content,
                  target_profile |-> target_profile,
                  has_before_backup |-> backs_up,
                  before_backup_file |-> before_backup,
                  live_before |-> live[target_profile]]
       /\ inflight' = [inflight EXCEPT ![actor] = Idle]
       /\ UNCHANGED <<settings, now, stateFile, verdict, drafts, last_publish, held,
                      tmpFiles, partial>>

(***************************************************************************)
(* list_backups.  A file name is the sequence of its pieces: the compact   *)
(* timestamp, "_", the pieces of the profile name, ".yaml".                *)
(***************************************************************************)
ListProfiles == Profiles \cup {"x_p1.yaml"}
NameTokens ==
    [p \in ListProfiles |->
        IF p = "x_p1.yaml" THEN <<"x", "_", "p1", ".yaml">>
        ELSE IF p = "p1.yaml" THEN <<"p1", ".yaml">>
        ELSE <<"p2", ".yaml">>]
\* the place of a profile name in the order of str
NameRank == [p \in ListProfiles |-> IF p = "x_p1.yaml" THEN 3 ELSE IF p = "p1.yaml" THEN 1 ELSE 2]

\* f"{self._now_compact()}_{target_profile}.yaml"
BackupFileName(b) == <<ToString(b.ts), "_">> \o NameTokens[b.profile] \o <<".yaml">>
\* f"_{profile_name}.yaml"
BackupSuffix(profile_name) == <<"_">> \o NameTokens[profile_name] \o <<".yaml">>

EndsWith(name, suffix) ==
    /\ Len(suffix) <= Len(name)
    /\ SubSeq(name, Len(name) - Len(suffix) + 1, Len(name)) = suffix

\* sorted(glob("*.yaml"), reverse=True): timestamps have one width, so the
\* names order by timestamp and then by the rest of the name
FileKey(b) == b.ts * (Cardinality(ListProfiles) + 1) + NameRank[b.profile]
RECURSIVE SortedReverse(_)
SortedReverse(files) ==
    IF files = {} THEN <<>>
    ELSE The({ <<first>> \o SortedReverse(files \ {first}) :
               first \in {CHOOSE b \in files : \A c \in files : FileKey(c) <= FileKey(b)} })

list_backups(profile_name, limit) ==
    The({ SubSeq(kept, 1, Min(Len(kept), Max(1, limit))) :
          kept \in {SelectSeq(SortedReverse(DOMAIN backups),
                              LAMBDA b : profile_name = ""
                                         \/ EndsWith(BackupFileName(b),
                                                     BackupSuffix(profile_name)))} })

ListBackups(profile_name, limit) ==
    /\ ret' = [op |-> "list_backups", result |-> "ok", profile_name |-> profile_name,
               limit |-> limit, backups |-> list_backups(profile_name, limit)]
    /\ UNCHANGED <<settings, callVars, now, stateFile, verdict, drafts, live, backups,
                   last_publish, audit, held>>

----------------------------------------------------------------------------
(***************************************************************************)
(* The engine after construction, and its sequential use: every call runs  *)
(* to completion before the next one starts.                               *)
(***************************************************************************)
Init ==
    /\ now = 0
    /\ stateFile = NoState
    /\ verdict = [runtime |-> "PASS", overall |-> "PASS"]
    /\ drafts = <<>>
    /\ live = [p \in Profiles |-> IF p = "p1.yaml" THEN "base" ELSE Absent]
    /\ backups = <<>>
    /\ last_publish = NoPublish
    /\ audit = <<>>
    /\ held = NoPreview
    /\ ret = [op |-> "init", result |-> "ok"]
    /\ inflight = [a \in Actors |-> Idle]
    /\ tmpFiles = <<>>
    /\ partial = {}
    /\ settings = DefaultSettings

(***************************************************************************)
(* Inputs of the calls.                                                    *)
(***************************************************************************)
Notes == {"checked", "rechecked"}
FreezePatches ==
    { <<<<"read_only_mode", BoolV(TRUE)>>>>,
      <<<<"publish_frozen", BoolV(TRUE)>>>>,
      <<<<"read_only_mode", BoolV(FALSE)>>, <<"publish_frozen", BoolV(FALSE)>>>> }
ValidPatches ==
    { <<<<"read_only_mode", BoolV(TRUE)>>, <<"high_risk_required_approvals", IntV(3)>>,
        <<"high_risk_cooldown_seconds", IntV(60)>>>>,
      <<<<"publish_frozen", BoolV(TRUE)>>>>,
      <<<<"high_risk_required_approvals", IntV(5)>>,
        <<"high_risk_two_man_rule", BoolV(FALSE)>>>>,
      <<<<"high_risk_cooldown_seconds", IntV(0)>>>>,
      <<>> }
InvalidPatches ==
    { <<<<"unknown_key", BoolV(TRUE)>>>>,
      <<<<"read_only_mode", BoolV(TRUE)>>, <<"unknown_key", BoolV(TRUE)>>>>,
      <<<<"read_only_mode", IntV(1)>>>>,
      <<<<"high_risk_required_approvals", BoolV(TRUE)>>>>,
      <<<<"high_risk_required_approvals", StrV("3")>>>>,
      <<<<"high_risk_cooldown_seconds", FloatV(float_of_int(3))>>>>,
      <<<<"high_risk_required_approvals", IntV(1)>>>>,
      <<<<"high_risk_required_approvals", IntV(6)>>>>,
      <<<<"high_risk_cooldown_seconds", IntV(0 - 1)>>>>,
      <<<<"high_risk_cooldown_seconds", IntV(86401)>>>>,
      <<<<"publish_frozen", BoolV(TRUE)>>, <<"high_risk_required_approvals", IntV(6)>>>> }
\* GovernanceService(default_high_risk_required_approvals=..,
\*                   default_high_risk_cooldown_seconds=..)
ConfiguredSettings ==
    [default_high_risk_required_approvals : {0, 2, 9},
     default_high_risk_cooldown_seconds : {1, 100000}]
GatePatches ==
    { <<<<"require_latest_pass", BoolV(FALSE)>>>>,
      <<<<"require_latest_pass", BoolV(TRUE)>>>>,
      <<<<"allow_pass_with_actions", BoolV(TRUE)>>>> }
Verdicts == {"PASS", "PASS_WITH_ACTIONS", "FAIL", Absent}
TwoManPatches ==
    { <<<<"high_risk_two_man_rule", BoolV(FALSE)>>>>,
      <<<<"high_risk_required_approvals", IntV(3)>>>>,
      <<<<"high_risk_cooldown_seconds", IntV(0)>>>> }
DraftIdInputs == (DOMAIN drafts) \cup {BogusDraftId}
BackupInputs == (DOMAIN backups) \cup {MissingBackup, UnsafeBackup}
CountEvents(action) == Cardinality({i \in 1..Len(audit) : audit[i].action = action})
DraftRoom == Cardinality(DOMAIN drafts) < MaxDrafts
UpdateRoom == CountEvents("state.update") < MaxUpdates
ApproveRoom == CountEvents("draft.approve") < MaxApprovals
PublishRoom == CountEvents("draft.publish") < MaxPublishes
RollbackRoom == CountEvents("config.rollback") < MaxRollbacks

\* the digest a caller may send: the one of a preview taken just before the
\* call, or one that matches no preview
FreshDigest(d) ==
    IF d \in DOMAIN drafts THEN preview_draft(d).publish_guard.preview_digest
    ELSE NoPreview.preview_digest
DigestInputs(d) == {FreshDigest(d), NoPreview.preview_digest}
PhraseInputs(d) == {ConfirmPhrase(d), WrongPhrase}

(***************************************************************************)
(* Spec: every gate of publish and rollback, one draft at a time.          *)
(***************************************************************************)
Next ==
    \/ now < MaxClock /\ Tick
    \/ \E o \in {"PASS", "FAIL"} : SetVerdict("PASS", o)
    \/ UpdateRoom /\ \E patch \in FreezePatches : UpdateState(patch, "admin")
    \/ DraftRoom /\ \E c \in {"high", "bad"} : CreateDraft("p1.yaml", c, "dev", "")
    \/ ApproveRoom /\ \E d \in DOMAIN drafts, a \in Actors : ApproveDraft(d, a, "checked")
    \/ PublishRoom /\ \E d \in DraftIdInputs :
           \E dg \in DigestInputs(d), ph \in PhraseInputs(d) :
               PublishDraft(d, "release", dg, ph)
    \/ RollbackRoom /\ \E b \in BackupInputs, p \in {"p1.yaml", "../x.yaml"} :
           Rollback(b, p, "release")

Spec == Init /\ [][Next]_vars


(***************************************************************************)
(* SpecFreeze: the freeze flags against publish and rollback.              *)
(***************************************************************************)
NextFreeze ==
    \/ now < MaxClock /\ Tick
    \/ GetState
    \/ UpdateRoom /\ \E patch \in FreezePatches : UpdateState(patch, "admin")
    \/ DraftRoom /\ CreateDraft("p1.yaml", "low", "dev", "")
    \/ PublishRoom /\ \E d \in DraftIdInputs :
           PublishDraft(d, "release", FreshDigest(d), ConfirmPhrase(d))
    \/ RollbackRoom /\ \E b \in (DOMAIN backups) \cup {MissingBackup}, p \in Profiles :
           Rollback(b, p, "release")

SpecFreeze == Init /\ [][NextFreeze]_vars

(***************************************************************************)
(* SpecTwoMan: approvals, quorum and cooldown of a high-risk draft.        *)
(***************************************************************************)
NextTwoMan ==
    \/ now < MaxClock /\ Tick
    \/ UpdateRoom /\ \E patch \in TwoManPatches : UpdateState(patch, "admin")
    \/ DraftRoom /\ \E c \in {"high", "low"} : CreateDraft("p1.yaml", c, "dev", "")
    \/ ApproveRoom /\ \E d \in DOMAIN drafts, a \in Actors, n \in Notes :
           ApproveDraft(d, a, n)
    \/ PublishRoom /\ \E d \in DOMAIN drafts :
           PublishDraft(d, "release", FreshDigest(d), ConfirmPhrase(d))

SpecTwoMan == Init /\ [][NextTwoMan]_vars

(***************************************************************************)
(* SpecDigest: a caller previews, the live profile is edited, the caller   *)
(* publishes with the digest and the phrase of the preview it holds.       *)
(***************************************************************************)
NextDigest ==
    \/ now < MaxClock /\ Tick
    \/ DraftRoom /\ \E c \in {"low", "high"} : CreateDraft("p1.yaml", c, "dev", "")
    \/ ApproveRoom /\ \E d \in DOMAIN drafts, a \in Actors : ApproveDraft(d, a, "checked")
    \/ \E d \in DOMAIN drafts : PreviewDraft(d)
    \/ \E c \in {"base", "low", "high"} : EditLive("p1.yaml", c)
    \/ PublishRoom /\ held.seen
          /\ PublishDraft(held.draft_id, "release", held.preview_digest, held.confirm_phrase)

SpecDigest == Init /\ [][NextDigest]_vars

(***************************************************************************)
(* SpecBackup: publish and rollback over an existing and an absent profile.*)
(***************************************************************************)
NextBackup ==
    \/ now < MaxClock /\ Tick
    \/ DraftRoom /\ \E p \in Profiles, c \in {"low", "high"} : CreateDraft(p, c, "dev", "")
    \/ ApproveRoom /\ \E d \in DOMAIN drafts, a \in Actors : ApproveDraft(d, a, "checked")
    \/ PublishRoom /\ \E d \in DOMAIN drafts :
           PublishDraft(d, "release", FreshDigest(d), ConfirmPhrase(d))
    \/ RollbackRoom /\ \E b \in (DOMAIN backups) \cup {MissingBackup}, p \in Profiles :
           Rollback(b, p, "release")

SpecBackup == Init /\ [][NextBackup]_vars

(***************************************************************************)
(* SpecRace: approve_draft and validate_draft calls of two callers on one  *)
(* draft, interleaved between their read and their write of its file.      *)
(***************************************************************************)
NextRace ==
    \/ now < MaxClock /\ Tick
    \/ DraftRoom /\ CreateDraft("p1.yaml", "high", "dev", "")
    \/ CountEvents("draft.approve") + Calling({"approve"}) < MaxApprovals
          /\ \E d \in DOMAIN drafts, a \in Actors : ApproveRead(d, a, "checked")
    \/ \E a \in Actors : ApproveWrite(a)
    \/ CountEvents("draft.validate") + Calling({"validate"}) < MaxValidations
          /\ \E d \in DOMAIN drafts, a \in Actors : ValidateRead(d, a)
    \/ \E a \in Actors : ValidateWrite(a)

SpecRace == Init /\ [][NextRace]_vars

(***************************************************************************)
(* SpecAtomic: the file operations of publish_draft calls of two callers,  *)
(* with crashes and readers in between.                                    *)
(***************************************************************************)
NextAtomic ==
    \/ DraftRoom /\ \E p \in Profiles : CreateDraft(p, "low", "dev", "")
    \/ CountEvents("draft.publish") + Calling({"backup", "backup_write", "tmp_open",
                                               "tmp_write", "replace", "crashed"})
           < MaxWriters
          /\ \E d \in DraftIdInputs, a \in Actors :
                 PublishBegin(d, a, FreshDigest(d), ConfirmPhrase(d))
    \/ \E a \in Actors : BackupOpen(a)
    \/ \E a \in Actors : BackupClose(a)
    \/ \E a \in Actors : TmpOpen(a)
    \/ \E a \in Actors : TmpClose(a)
    \/ \E a \in Actors : Replace(a)
    \/ \E a \in Actors : Crash(a)
    \/ \E path \in DurablePaths : ReadFile(path)

SpecAtomic == Init /\ [][NextAtomic]_vars

(***************************************************************************)
(* SpecValidate: drafts that fail validation, or that hold both            *)
(* environment flags, through validate, approve and publish.               *)
(***************************************************************************)
ValidateRoom == CountEvents("draft.validate") < MaxValidations

NextValidate ==
    \/ now < MaxClock /\ Tick
    \/ DraftRoom /\ \E c \in {"bad", "both"} : CreateDraft("p1.yaml", c, "dev", "")
    \/ ValidateRoom /\ \E d \in DOMAIN drafts : ValidateDraft(d, "dev")
    \/ ApproveRoom /\ \E d \in DOMAIN drafts, a \in Actors : ApproveDraft(d, a, "checked")
    \/ PublishRoom /\ \E d \in DOMAIN drafts :
           PublishDraft(d, "release", FreshDigest(d), ConfirmPhrase(d))

SpecValidate == Init /\ [][NextValidate]_vars

(***************************************************************************)
(* SpecGate: the latest-run gate of publish under every pair of verdicts.  *)
(***************************************************************************)
NextGate ==
    \/ \E r \in Verdicts, o \in Verdicts : SetVerdict(r, o)
    \/ UpdateRoom /\ \E patch \in GatePatches : UpdateState(patch, "admin")
    \/ DraftRoom /\ CreateDraft("p1.yaml", "low", "dev", "")
    \/ PublishRoom /\ \E d \in DOMAIN drafts :
           PublishDraft(d, "release", FreshDigest(d), ConfirmPhrase(d))

SpecGate == Init /\ [][NextGate]_vars

(***************************************************************************)
(* SpecState: get_state and update_state of a service constructed with any *)
(* of the configured defaults, over valid and invalid patches.             *)
(***************************************************************************)
InitConfigured ==
    /\ now = 0
    /\ stateFile = NoState
    /\ verdict = [runtime |-> "PASS", overall |-> "PASS"]
    /\ drafts = <<>>
    /\ live = [p \in Profiles |-> IF p = "p1.yaml" THEN "base" ELSE Absent]
    /\ backups = <<>>
    /\ last_publish = NoPublish
    /\ audit = <<>>
    /\ held = NoPreview
    /\ ret = [op |-> "init", result |-> "ok"]
    /\ inflight = [a \in Actors |-> Idle]
    /\ tmpFiles = <<>>
    /\ partial = {}
    /\ settings \in ConfiguredSettings

NextState ==
    \/ now < MaxClock /\ Tick
    \/ GetState
    \/ UpdateRoom /\ \E patch \in ValidPatches : UpdateState(patch, "admin")
    \/ \E patch \in InvalidPatches : UpdateState(patch, "admin")

SpecState == InitConfigured /\ [][NextState]_vars

(***************************************************************************)
(* SpecDrafts: several create_draft calls, with approvals in between.      *)
(***************************************************************************)
NextDrafts ==
    \/ now < MaxClock /\ Tick
    \/ CountEvents("draft.create") < MaxCreates
          /\ \E p \in Profiles, c \in {"low", "high"} : CreateDraft(p, c, "dev", "")
    \/ ApproveRoom /\ \E d \in DOMAIN drafts, a \in Actors : ApproveDraft(d, a, "checked")

SpecDrafts == Init /\ [][NextDrafts]_vars

(***************************************************************************)
(* SpecRepublish: a draft published, and published again.                  *)
(***************************************************************************)
NextRepublish ==
    \/ now < MaxClock /\ Tick
    \/ DraftRoom /\ \E p \in Profiles : CreateDraft(p, "low", "dev", "")
    \/ \E c \in {"base", "high"} : EditLive("p1.yaml", c)
    \/ CountEvents("draft.publish") < MaxRepublishes
          /\ \E d \in DOMAIN drafts :
                 PublishDraft(d, "release", FreshDigest(d), ConfirmPhrase(d))

SpecRepublish == Init /\ [][NextRepublish]_vars

(***************************************************************************)
(* SpecRisk: the risk flags of one numeric limit and one environment       *)
(* toggle, each written, or not, in the live text and in the draft.        *)
(***************************************************************************)
Missing == [lit |-> "missing"]
NumericLiterals ==
    {Missing, IntLit(0), IntLit(5), IntLit(6), IntLit(10), DecLit(5, 1), DecLit(6, 1),
     WordLit("true")}
ToggleLiterals == {Missing, WordLit("true"), IntLit(1), WordLit("null")}

\* path -> literal for the one or two keys written
TextOf(key, lit) == IF lit = Missing THEN <<>> ELSE Put(<<>>, key, lit)
Texts(nk, nlit, tk, tlit) ==
    IF tlit = Missing THEN TextOf(nk, nlit) ELSE Put(TextOf(nk, nlit), tk, tlit)

InitRisk ==
    /\ now = 0
    /\ stateFile = NoState
    /\ verdict = [runtime |-> "PASS", overall |-> "PASS"]
    /\ drafts = <<>>
    /\ live = [p \in Profiles |-> IF p = "p1.yaml" THEN "base" ELSE Absent]
    /\ backups = <<>>
    /\ last_publish = NoPublish
    /\ audit = <<>>
    /\ held = NoPreview
    /\ \E i \in 1..Len(NumericLimitKeys), j \in 1..Len(EnvironmentToggleKeys) :
         \E nb \in NumericLiterals, na \in NumericLiterals,
            tb \in ToggleLiterals, ta \in ToggleLiterals :
             /\ {nb, na} = {Missing} \/ {tb, ta} \subseteq {Missing, WordLit("true")}
             /\ ret = [op |-> "init", result |-> "ok",
                       before |-> Texts(NumericLimitKeys[i], nb, EnvironmentToggleKeys[j], tb),
                       after |-> Texts(NumericLimitKeys[i], na, EnvironmentToggleKeys[j], ta)]
    /\ inflight = [a \in Actors |-> Idle]
    /\ tmpFiles = <<>>
    /\ partial = {}
    /\ settings = DefaultSettings

\* risk_flags_from_diff and risk_level, as preview_draft applies them to the
\* scalar paths of the two texts
RiskFlags ==
    /\ ret.op = "init"
    /\ LET flags == risk_flags_from_diff(ParsedPaths(ret.before), ParsedPaths(ret.after))
       IN ret' = [op |-> "risk_flags_from_diff", result |-> "ok",
                  before |-> ret.before, after |-> ret.after,
                  risk_flags |-> flags, risk_level |-> risk_level(flags)]
    /\ UNCHANGED <<settings, callVars, now, stateFile, verdict, drafts, live, backups,
                   last_publish, audit, held>>

NextRisk == RiskFlags

SpecRisk == InitRisk /\ [][NextRisk]_vars

(***************************************************************************)
(* SpecAudit: every call that appends to the audit log, and the reads.     *)
(***************************************************************************)
NextAudit ==
    \/ now < MaxClock /\ Tick
    \/ CountEvents("state.update") < 1
          /\ \E patch \in {<<<<"high_risk_cooldown_seconds", IntV(0)>>>>,
                            <<<<"unknown_key", BoolV(TRUE)>>>>} :
                 UpdateState(patch, "admin")
    \/ DraftRoom /\ \E p \in {"p1.yaml"} \cup UnsafeNames : CreateDraft(p, "low", "dev", "")
    \/ ValidateRoom /\ \E d \in DraftIdInputs : ValidateDraft(d, "dev")
    \/ CountEvents("draft.approve") < 1
          /\ \E d \in DraftIdInputs : ApproveDraft(d, "alice", "checked")
    \/ ~held.seen /\ \E d \in DraftIdInputs : PreviewDraft(d)
    \/ PublishRoom /\ \E d \in DraftIdInputs :
           PublishDraft(d, "release", FreshDigest(d), ConfirmPhrase(d))
    \/ RollbackRoom /\ \E b \in (DOMAIN backups) \cup {MissingBackup}, p \in Profiles :
           Rollback(b, p, "release")

SpecAudit == Init /\ [][NextAudit]_vars

(***************************************************************************)
(* SpecUpdateRace: one update_state call of each of two callers, their     *)
(* file steps interleaved.                                                 *)
(***************************************************************************)
RacePatches ==
    { <<<<"read_only_mode", BoolV(TRUE)>>>>,
      <<<<"publish_frozen", BoolV(TRUE)>>>>,
      <<<<"high_risk_required_approvals", IntV(3)>>,
        <<"high_risk_cooldown_seconds", IntV(60)>>>> }

NextUpdateRace ==
    \/ now < MaxClock /\ Tick
    \/ stateFile = NoState /\ GetState
    \/ \E patch \in RacePatches, a \in Actors : UpdateRead(patch, a)
    \/ \E a \in Actors : UpdateTmpWrite(a)
    \/ \E a \in Actors : UpdateReplace(a)

SpecUpdateRace == Init /\ [][NextUpdateRace]_vars

(***************************************************************************)
(* SpecList: publishes onto three profiles, one of them named as another   *)
(* with a prefix, and the listings of their backups.                       *)
(***************************************************************************)
MaxListed == 2

InitList ==
    /\ now = 0
    /\ stateFile = NoState
    /\ verdict = [runtime |-> "PASS", overall |-> "PASS"]
    /\ drafts = <<>>
    /\ live = [p \in ListProfiles |-> "base"]
    /\ backups = <<>>
    /\ last_publish = NoPublish
    /\ audit = <<>>
    /\ held = NoPreview
    /\ ret = [op |-> "init", result |-> "ok"]
    /\ inflight = [a \in Actors |-> Idle]
    /\ tmpFiles = <<>>
    /\ partial = {}
    /\ settings = DefaultSettings

NextList ==
    \/ now < MaxClock /\ Tick
    \/ CountEvents("draft.create") < MaxListed
          /\ \E p \in ListProfiles : CreateDraft(p, "low", "dev", "")
    \/ CountEvents("draft.publish") < MaxListed
          /\ \E d \in DOMAIN drafts :
                 PublishDraft(d, "release", FreshDigest(d), ConfirmPhrase(d))
    \/ \E p \in ListProfiles \cup {""}, limit \in {0, 1, 200} : ListBackups(p, limit)

SpecList == InitList /\ [][NextList]_vars

(***************************************************************************)
(* SpecDraftFrame: the three calls that write draft records.               *)
(***************************************************************************)
NextDraftFrame ==
    \/ now < MaxClock /\ Tick
    \/ CountEvents("draft.create") < MaxCreates
          /\ \E p \in Profiles, note \in {"", "second"} : CreateDraft(p, "high", "dev", note)
    \/ ValidateRoom /\ \E d \in DraftIdInputs : ValidateDraft(d, "alice")
    \/ ApproveRoom /\ \E d \in DraftIdInputs, a \in Actors : ApproveDraft(d, a, "checked")

SpecDraftFrame == Init /\ [][NextDraftFrame]_vars

(***************************************************************************)
(* SpecFreezeRace: update_state calls that freeze and unfreeze, between    *)
(* the file steps of publish_draft and rollback calls of two callers.      *)
(***************************************************************************)
NextFreezeRace ==
    \/ DraftRoom /\ CreateDraft("p1.yaml", "low", "dev", "")
    \/ UpdateRoom /\ \E patch \in FreezePatches : UpdateState(patch, "ops")
    \/ CountEvents("draft.publish") + Calling({"backup", "backup_write", "tmp_open",
                                               "tmp_write", "replace"})
           < MaxPublishes
          /\ \E d \in DraftIdInputs, a \in Actors :
                 PublishBegin(d, a, FreshDigest(d), ConfirmPhrase(d))
    \/ \E a \in Actors : BackupOpen(a)
    \/ \E a \in Actors : BackupClose(a)
    \/ \E a \in Actors : TmpOpen(a)
    \/ \E a \in Actors : TmpClose(a)
    \/ \E a \in Actors : Replace(a)
    \/ CountEvents("config.rollback") + Calling({"rollback_write"}) < MaxRollbacks
          /\ \E b \in DOMAIN backups, p \in Profiles, a \in Actors : RollbackBegin(b, p, a)
    \/ \E a \in Actors : RollbackWrite(a)

SpecFreezeRace == Init /\ [][NextFreezeRace]_vars

(***************************************************************************)
(* SpecRestore: rollbacks onto either profile, of backups of either, with  *)
(* live profiles edited to invalid and to high-risk texts, failing latest  *)
(* verdicts and freezes in between.                                        *)
(***************************************************************************)
MaxRestores == 2

NextRestore ==
    \/ now < MaxClock /\ Tick
    \/ SetVerdict("PASS", "FAIL")
    \/ CountEvents("state.update") < 1
          /\ UpdateState(<<<<"publish_frozen", BoolV(TRUE)>>>>, "admin")
    \/ \E p \in Profiles, c \in {"bad", "high"} : live[p] \in {Absent, "low", "base"} /\ EditLive(p, c)
    \/ DraftRoom /\ CreateDraft("p1.yaml", "low", "dev", "")
    \/ PublishRoom /\ \E d \in DOMAIN drafts :
           PublishDraft(d, "release", FreshDigest(d), ConfirmPhrase(d))
    \/ CountEvents("config.rollback") < MaxRestores
          /\ \E b \in BackupInputs, p \in Profiles \cup UnsafeNames :
                 Rollback(b, p, "release")

SpecRestore == Init /\ [][NextRestore]_vars

(***************************************************************************)
(* SpecCorrupt: approvals and previews of a draft while state.json is      *)
(* left corrupt, and after it has been removed again.                      *)
(***************************************************************************)
NextCorrupt ==
    \/ now < MaxClock /\ Tick
    \/ DraftRoom /\ CreateDraft("p1.yaml", "high", "dev", "")
    \/ \E content \in {CorruptState, NoState} : EditState(content)
    \/ ApproveRoom /\ \E d \in DraftIdInputs, a \in Actors : ApproveDraft(d, a, "checked")
    \/ \E d \in DraftIdInputs : PreviewDraft(d)

SpecCorrupt == Init /\ [][NextCorrupt]_vars

(***************************************************************************)
(* SpecCooldown: approvals and re-approvals of a draft over the clock,     *)
(* under cooldowns of zero, one and two seconds and with the two-man rule  *)
(* on and off.                                                             *)
(***************************************************************************)
MaxStamps == 3
CooldownPatches ==
    { <<<<"high_risk_cooldown_seconds", IntV(0)>>>>,
      <<<<"high_risk_cooldown_seconds", IntV(2)>>>>,
      <<<<"high_risk_two_man_rule", BoolV(FALSE)>>>> }

NextCooldown ==
    \/ now < MaxClock /\ Tick
    \/ CountEvents("state.update") < 1
          /\ \E patch \in CooldownPatches : UpdateState(patch, "admin")
    \/ DraftRoom /\ \E c \in {"high", "low"} : CreateDraft("p1.yaml", c, "dev", "")
    \/ CountEvents("draft.approve") < MaxStamps
          /\ \E d \in DOMAIN drafts, a \in Actors : ApproveDraft(d, a, "checked")
    \/ PublishRoom /\ \E d \in DOMAIN drafts :
           PublishDraft(d, "release", FreshDigest(d), ConfirmPhrase(d))

SpecCooldown == Init /\ [][NextCooldown]_vars

(***************************************************************************)
(* SpecPinned: a digest taken by one preview of a draft and sent to        *)
(* publish_draft later, after validations, approvals, state updates,       *)
(* clock ticks and edits of the live profile.                              *)
(***************************************************************************)
NextPinned ==
    \/ now < MaxClock /\ Tick
    \/ CountEvents("state.update") < 1
          /\ \E patch \in TwoManPatches : UpdateState(patch, "admin")
    \/ DraftRoom /\ CreateDraft("p1.yaml", "high", "dev", "")
    \/ ValidateRoom /\ \E d \in DOMAIN drafts : ValidateDraft(d, "alice")
    \/ ApproveRoom /\ \E d \in DOMAIN drafts, a \in Actors : ApproveDraft(d, a, "checked")
    \/ ~held.seen /\ \E d \in DOMAIN drafts : PreviewDraft(d)
    \/ \E c \in {"base", "low"} : EditLive("p1.yaml", c)
    \/ PublishRoom /\ held.seen
          /\ PublishDraft(held.draft_id, "release", held.preview_digest, held.confirm_phrase)

SpecPinned == Init /\ [][NextPinned]_vars

(***************************************************************************)
(* SpecBound: approvals of a low-risk draft, then an edit of the live      *)
(* profile that makes the same draft a HIGH-risk change, state updates and *)
(* the publish.                                                            *)
(***************************************************************************)
NextBound ==
    \/ now < MaxClock /\ Tick
    \/ CountEvents("state.update") < 1
          /\ \E patch \in TwoManPatches : UpdateState(patch, "admin")
    \/ DraftRoom /\ CreateDraft("p1.yaml", "low", "dev", "")
    \/ ApproveRoom /\ \E d \in DOMAIN drafts, a \in Actors : ApproveDraft(d, a, "checked")
    \/ ~held.seen /\ \E d \in DOMAIN drafts : PreviewDraft(d)
    \/ EditLive("p1.yaml", "high")
    \/ PublishRoom /\ \E d \in DOMAIN drafts :
           PublishDraft(d, "release", FreshDigest(d), ConfirmPhrase(d))

SpecBound == Init /\ [][NextBound]_vars

(***************************************************************************)
(* SpecCreep: publishes one after the other on the two profiles, of texts  *)
(* that raise a numeric limit step by step or set it to zero, with no      *)
(* approval and the two-man rule on.                                       *)
(***************************************************************************)
NextCreep ==
    \/ now < MaxClock /\ Tick
    \/ CountEvents("draft.create") < MaxCreates
          /\ \E p \in Profiles, c \in {"low", "step", "double", "zero"} :
                 CreateDraft(p, c, "dev", "")
    \/ CountEvents("draft.publish") < MaxCreates
          /\ \E d \in DOMAIN drafts :
                 PublishDraft(d, "release", FreshDigest(d), ConfirmPhrase(d))

SpecCreep == Init /\ [][NextCreep]_vars

(***************************************************************************)
(* SpecThaw: freezes, and the update_state call that clears both flags,    *)
(* among create, validate, approve and publish calls.  An operator who     *)
(* finds the engine frozen keeps calling update_state until the call is    *)
(* served: weak fairness of Thaw.                                          *)
(***************************************************************************)
ThawPatch == <<<<"read_only_mode", BoolV(FALSE)>>, <<"publish_frozen", BoolV(FALSE)>>>>

Thaw ==
    /\ get_state.read_only_mode \/ get_state.publish_frozen
    /\ UpdateState(ThawPatch, "admin")

NextThaw ==
    \/ now < MaxClock /\ Tick
    \/ CountEvents("state.update") < MaxUpdates
          /\ \E patch \in FreezePatches \ {ThawPatch} : UpdateState(patch, "admin")
    \/ Thaw
    \/ CountEvents("draft.create") < MaxDrafts
          /\ \E p \in Profiles \cup UnsafeNames : CreateDraft(p, "low", "dev", "")
    \/ ValidateRoom /\ \E d \in DraftIdInputs : ValidateDraft(d, "alice")
    \/ CountEvents("draft.approve") < MaxDrafts
          /\ \E d \in DraftIdInputs : ApproveDraft(d, "alice", "checked")
    \/ PublishRoom /\ \E d \in DOMAIN drafts :
           PublishDraft(d, "release", FreshDigest(d), ConfirmPhrase(d))

SpecThaw == Init /\ [][NextThaw]_vars /\ WF_vars(Thaw)

----------------------------------------------------------------------------
(***************************************************************************)
(* Claims.                                                                 *)
(***************************************************************************)
Failed(op) == ret.op = op /\ ret.result # "ok"

\* C3: a publish_draft or rollback call that fails at any guard step leaves the
\* live profiles, the backups, the last_publish record and the audit log
\* exactly as they were before the call.
C3_NoPartialMutation ==
    [][ (ret'.op \in {"publish_draft", "rollback"} /\ ret'.result # "ok")
        => /\ live' = live
           /\ backups' = backups
           /\ last_publish' = last_publish
           /\ audit' = audit ]_vars

\* a publish refused at the last gate (re-validation) while a live profile that
\* could have been backed up exists
C3_Witness ==
    /\ ret.op = "publish_draft"
    /\ ret.result = "blocked:validation"
    /\ live["p1.yaml"] # Absent

\* C4: while read_only_mode or publish_frozen is set in the stored state,
\* every publish_draft and rollback call is refused as blocked by the freeze,
\* and no call of the engine changes a live profile.
Frozen == stateFile # NoState /\ (stateFile.read_only_mode \/ stateFile.publish_frozen)

C1_HighRisk(d) ==
    /\ d \in DOMAIN drafts
    /\ \E i \in 1..Len(RiskFlagsOf[live[drafts[d].profile_name], drafts[d].content]) :
           RiskFlagsOf[live[drafts[d].profile_name], drafts[d].content][i].severity = "HIGH"
    /\ get_state.high_risk_two_man_rule

C1_TwoManRule ==
    [][ (ret'.op = "publish_draft" /\ C1_HighRisk(ret'.draft_id))
        => LET ap == drafts[ret'.draft_id].approvals
               approvers == {ap[i].actor : i \in 1..Len(ap)}
               required == get_state.high_risk_required_approvals
               cooldown == get_state.high_risk_cooldown_seconds
           IN /\ Cardinality(approvers) < required => ret'.result # "ok"
              /\ ret'.result = "ok"
                   => /\ Cardinality(approvers) >= required
                      /\ \A i \in 1..Len(ap) : now - ap[i].approved_at_utc >= cooldown ]_vars

\* a high-risk draft published over the base profile with two approvals, under
\* the two-man rule and a cooldown
C1_Witness ==
    /\ ret.op = "publish_draft" /\ ret.result = "ok"
    /\ drafts[ret.draft_id].content = "high"
    /\ ret.has_backup /\ backups[ret.backup_file] = "base"
    /\ Len(drafts[ret.draft_id].approvals) = 2
    /\ stateFile.high_risk_two_man_rule
    /\ stateFile.high_risk_cooldown_seconds > 0

\* C7: the stored approvals of a draft hold at most one entry per actor, in
\* ascending order of approval time; after approve_draft the actor's only
\* entry carries the time and the note of that call.
C7_Approvals ==
    \A d \in DOMAIN drafts :
        LET ap == drafts[d].approvals
        IN /\ \A i, j \in 1..Len(ap) :
                  i < j => /\ ap[i].actor # ap[j].actor
                           /\ ap[i].approved_at_utc <= ap[j].approved_at_utc
           /\ (ret.op = "approve_draft" /\ ret.result = "ok" /\ ret.draft_id = d)
                => /\ Cardinality({i \in 1..Len(ap) : ap[i].actor = ret.actor}) = 1
                   /\ \E i \in 1..Len(ap) :
                          ap[i] = [actor |-> ret.actor, approved_at_utc |-> now,
                                   note |-> ret.note]

\* the same actor has approved twice in a row, the second time later and with
\* another note
C7_Witness ==
    /\ ret.op = "approve_draft" /\ ret.result = "ok"
    /\ Len(audit) >= 2
    /\ LET prev == audit[Len(audit) - 1]
       IN /\ prev.action = "draft.approve"
          /\ prev.actor = ret.actor
          /\ prev.fields.draft_id = ret.draft_id
          /\ prev.ts_utc < now
    /\ ret.note = "rechecked"
    /\ Len(drafts[ret.draft_id].approvals) = 1


\* C2: when the diff or the risk flags of a draft have changed since the
\* preview whose digest the caller holds, a publish_draft that supplies that
\* digest is refused as blocked and the live profile is not overwritten.
C2_DigestPinning ==
    [][ ( /\ held.seen
          /\ ret'.op = "publish_draft"
          /\ ret'.draft_id = held.draft_id
          /\ LET draft == drafts[held.draft_id]
                 base == live[draft.profile_name]
             IN \/ DiffOf[base, draft.content] # held.diff
                \/ RiskFlagsOf[base, draft.content] # held.risk_flags )
        => /\ ret'.result = "blocked:preview_digest"
           /\ live' = live ]_vars

\* a publish with the digest of a preview taken before the live profile was
\* edited has been refused
C2_Witness ==
    /\ held.seen
    /\ ret.op = "publish_draft"
    /\ ret.result = "blocked:preview_digest"
    /\ ret.draft_id = held.draft_id
    /\ held.diff # DiffOf[live["p1.yaml"], drafts[held.draft_id].content]
    /\ live["p1.yaml"] # "base"

\* C5 as stated: every successful rollback creates a before_rollback backup
\* holding what was live immediately before, and afterwards the live profile
\* equals the content of the chosen backup file.
C5_AlwaysBacksUp ==
    [][ (ret'.op = "rollback" /\ ret'.result = "ok")
        => LET p == ret'.target_profile
               b == ret'.source_backup_file
           IN /\ ret'.has_before_backup
              /\ ret'.before_backup_file \in DOMAIN backups'
              /\ backups'[ret'.before_backup_file] = live[p]
              /\ live'[p] = backups'[b] ]_vars

\* C5, amended: a successful rollback onto a target profile that exists creates
\* a before_rollback backup holding what was live immediately before, and onto
\* a target that does not exist creates none; afterwards the live profile
\* equals the content the chosen backup file held when the call read it.
C5_Rollback ==
    [][ (ret'.op = "rollback" /\ ret'.result = "ok")
        => LET p == ret'.target_profile
               b == ret'.source_backup_file
               n == Len(audit')
           IN /\ live'[p] = backups[b]
              /\ live[p] # Absent
                   => /\ ret'.has_before_backup
                      /\ ret'.before_backup_file \in DOMAIN backups'
                      /\ backups'[ret'.before_backup_file] = live[p]
                      /\ audit'[n - 1].action = "config.backup"
                      /\ audit'[n - 1].fields.reason = "before_rollback"
                      /\ audit'[n - 1].fields.backup_file = ret'.before_backup_file
              /\ live[p] = Absent
                   => /\ ~ret'.has_before_backup
                      /\ backups' = backups ]_vars

\* a rollback has replaced an existing live profile by a different backup
\* content and kept the replaced content in a before_rollback backup
C5_Witness ==
    /\ ret.op = "rollback" /\ ret.result = "ok"
    /\ ret.has_before_backup
    /\ ret.live_before # ret.source_content
    /\ live[ret.target_profile] = ret.source_content
    /\ backups[ret.before_backup_file] = ret.live_before

\* C6: once a backup file exists, no operation of the engine changes its
\* content or removes it, operations within the same clock second on the same
\* profile included.
C6_BackupsImmutable ==
    [][ \A b \in DOMAIN backups :
            b \in DOMAIN backups' /\ backups'[b] = backups[b] ]_vars

\* C10: after a successful publish_draft the live profile equals the draft's
\* content; if the profile existed before the call a before_publish backup
\* holding the prior live content has been created and its name is returned,
\* and if it did not exist no backup is created and none is returned.
C10_Publish ==
    [][ (ret'.op = "publish_draft" /\ ret'.result = "ok")
        => LET draft == drafts[ret'.draft_id]
               p == draft.profile_name
               n == Len(audit')
           IN /\ live'[p] = draft.content
              /\ live[p] # Absent
                   => /\ ret'.has_backup
                      /\ ret'.backup_file \in DOMAIN backups'
                      /\ backups'[ret'.backup_file] = live[p]
                      /\ audit'[n - 1].action = "config.backup"
                      /\ audit'[n - 1].fields.reason = "before_publish"
                      /\ audit'[n - 1].fields.backup_file = ret'.backup_file
                      /\ last_publish'.backup_file = ret'.backup_file
              /\ live[p] = Absent
                   => /\ ~ret'.has_backup
                      /\ ~last_publish'.has_backup
                      /\ backups' = backups ]_vars

\* a draft published over the existing base profile, whose backup holds the
\* base content
C10_Witness ==
    /\ ret.op = "publish_draft" /\ ret.result = "ok"
    /\ drafts[ret.draft_id].content = "low"
    /\ live["p1.yaml"] = "low"
    /\ ret.has_backup
    /\ backups[ret.backup_file] = "base"
    /\ last_publish.backup_file = ret.backup_file


\* C8: a draft file is written whole from the record its writer read: when an
\* approve_draft or validate_draft call writes, the stored record holds that
\* call's change on top of what the call read, and any approval or validation
\* another call stored between that read and this write is lost.
C8_LastWriterWins ==
    [][ \A a \in Actors :
          (inflight[a].pc \in {"approve", "validate"} /\ inflight'[a] = Idle)
          => LET call == inflight[a]
                 stored == drafts'[call.draft_id]
             IN IF call.pc = "approve"
                THEN /\ ActorsOf(stored.approvals) =
                            ActorsOf(call.read.approvals) \cup {a}
                     /\ stored.validated_by = call.read.validated_by
                     /\ stored.validated_at_utc = call.read.validated_at_utc
                ELSE /\ stored.approvals = call.read.approvals
                     /\ stored.validated_by = a ]_vars

\* both callers' approvals of the draft have returned and are in the audit
\* log, and the stored draft holds only one of them
C8_Witness ==
    /\ \A a \in Actors : inflight[a] = Idle
    /\ \E d \in DOMAIN drafts :
          /\ \A a \in Actors :
                 \E i \in 1..Len(audit) : /\ audit[i].action = "draft.approve"
                                          /\ audit[i].actor = a
                                          /\ audit[i].fields.draft_id = d
          /\ Cardinality(ActorsOf(drafts[d].approvals)) = 1

\* C9: every durable file is written to a temporary file and renamed, so a
\* reader never observes a half-written file, whatever the interleaving of
\* writers and readers and wherever a writer crashes.
C9_NoHalfWrittenRead ==
    ret.op = "read_file" => ~ret.half_written


\* C11: publish_draft is refused as blocked when the draft fails validation,
\* and a successful publish_draft never writes to a live profile a content
\* that lacks a required section or that sets both exchange.demo_trading and
\* exchange.testnet to true.
C11_NeverPublishesInvalid ==
    [][ ret'.op = "publish_draft"
        => LET content == drafts[ret'.draft_id].content
               values == extract_scalar_paths(content)
           IN /\ ~validate_config_text(content).ok => ret'.result # "ok"
              /\ ret'.result = "ok"
                   => /\ \A sec \in RequiredSections : HasLine(Lines(content), sec, NoValue)
                      /\ ~ ( /\ Get(values, "exchange.demo_trading") = BoolV(TRUE)
                             /\ Get(values, "exchange.testnet") = BoolV(TRUE) ) ]_vars


\* C12: while require_latest_pass is true, publish_draft fails unless the
\* latest runtime verdict and the latest closed-loop overall status are both
\* PASS, or PASS_WITH_ACTIONS when allow_pass_with_actions is true; while it
\* is false the verdicts are not consulted: a publish that passes the other
\* gates succeeds whatever the verdicts are, missing report files included.
C12_LatestGate ==
    [][ ret'.op = "publish_draft"
        => LET st == get_state
               allowed == IF st.allow_pass_with_actions
                          THEN {"PASS", "PASS_WITH_ACTIONS"} ELSE {"PASS"}
               passed == verdict.runtime \in allowed /\ verdict.overall \in allowed
           IN IF st.require_latest_pass
              THEN /\ ret'.result = "ok" => passed
                   /\ ~passed => /\ ret'.result \in {"blocked:runtime_verdict",
                                                     "blocked:overall_status",
                                                     "error:StoreError"}
                                 /\ live' = live
              ELSE ret'.result = "ok" ]_vars

\* a publish let through on PASS_WITH_ACTIONS as overall status, allowed by the
\* stored state
C12_Witness ==
    /\ ret.op = "publish_draft" /\ ret.result = "ok"
    /\ verdict = [runtime |-> "PASS", overall |-> "PASS_WITH_ACTIONS"]
    /\ stateFile.require_latest_pass
    /\ stateFile.allow_pass_with_actions
    /\ live["p1.yaml"] = "low"


\* C13: a preview_draft of a draft whose record, live profile and governance
\* state are what they were at the previous preview_draft of that draft
\* yields the same preview_digest.
C13_PreviewIdempotent ==
    [][ ( /\ ret'.op = "preview_draft" /\ ret'.result = "ok"
          /\ held.seen
          /\ held.draft_id = ret'.draft_id
          /\ held.read = PreviewBasis(held.draft_id) )
        => held'.preview_digest = held.preview_digest ]_vars

\* a second preview of an approved draft, taken a second after the first with
\* nothing changed in between
C13_Witness ==
    /\ ret.op = "preview_draft" /\ ret.result = "ok"
    /\ held.again
    /\ held.read.draft.approvals # <<>>
    /\ held.read.state.updated_at_utc < now
    /\ \A i \in 1..Len(audit) : audit[i].ts_utc < now


PatchKeys(patch) == {patch[i][1] : i \in 1..Len(patch)}

\* C14 as stated: after a valid update_state, get_state returns every patched
\* field with the patched value and every unpatched field with its previous
\* value, and updated_at has advanced.
C14_UpdatedAtAdvances ==
    [][ (ret'.op = "update_state" /\ ret'.result = "ok")
        => LET patch == ret'.patch
               before == get_state
               after == get_state'
           IN /\ \A i \in 1..Len(patch) : after[patch[i][1]] = patch[i][2].v
              /\ \A k \in (BoolKeys \cup IntKeys) \ PatchKeys(patch) : after[k] = before[k]
              /\ stateFile # NoState => after.updated_at_utc > stateFile.updated_at_utc ]_vars

\* C14, amended: after a valid update_state, get_state returns every patched
\* field with the patched value and every unpatched field with its previous
\* value; updated_at is the second of the call, which is later than the
\* previous updated_at unless that was set within the same second.
C14_UpdateFrame ==
    [][ (ret'.op = "update_state" /\ ret'.result = "ok")
        => LET patch == ret'.patch
               before == get_state
               after == get_state'
           IN /\ \A i \in 1..Len(patch) : after[patch[i][1]] = patch[i][2].v
              /\ \A k \in (BoolKeys \cup IntKeys) \ PatchKeys(patch) : after[k] = before[k]
              /\ after.updated_at_utc = now
              /\ after.updated_at_utc >= before.updated_at_utc ]_vars

\* a second update, a second after the first, has patched three fields and
\* kept publish_frozen as the first update set it
C14_Witness ==
    /\ ret.op = "update_state" /\ ret.result = "ok"
    /\ Len(ret.patch) = 3
    /\ "publish_frozen" \notin PatchKeys(ret.patch)
    /\ stateFile.publish_frozen
    /\ stateFile.high_risk_cooldown_seconds = 60
    /\ stateFile.updated_at_utc = now
    /\ Len(audit) = 2 /\ audit[1].ts_utc < now

\* C15: update_state rejects a patch with an unknown key, a non-boolean for a
\* boolean field, a boolean or a non-integer for an integer field, or an
\* integer outside the field's range; a rejected patch changes nothing of the
\* state get_state returns and appends no audit event, valid earlier keys of
\* the patch included.
C15_RejectsWhole ==
    [][ ( /\ ret'.op = "update_state"
          /\ \E i \in 1..Len(ret'.patch) :
                LET key == ret'.patch[i][1]
                    value == ret'.patch[i][2]
                IN \/ key \notin BoolKeys \cup IntKeys
                   \/ key \in BoolKeys /\ value.t # "bool"
                   \/ key \in IntKeys /\ value.t # "int"
                   \/ /\ key = "high_risk_required_approvals" /\ value.t = "int"
                      /\ value.v \notin 2..5
                   \/ /\ key = "high_risk_cooldown_seconds" /\ value.t = "int"
                      /\ value.v \notin 0..86400 )
        => /\ ret'.result # "ok"
           /\ get_state' = get_state
           /\ audit' = audit ]_vars

\* a patch whose first key is valid and whose second is out of range has been
\* rejected, and the first key is not applied
C15_Witness ==
    /\ ret.op = "update_state"
    /\ ret.result = "invalid:required_approvals_range"
    /\ Len(ret.patch) = 2
    /\ ret.patch[1] = <<"publish_frozen", BoolV(TRUE)>>
    /\ stateFile # NoState
    /\ ~stateFile.publish_frozen

\* C16: whatever defaults the service is constructed with, every state
\* get_state returns holds high_risk_required_approvals in [2,5] and
\* high_risk_cooldown_seconds in [0,86400].
C16_StateInRange ==
    /\ get_state.high_risk_required_approvals \in 2..5
    /\ get_state.high_risk_cooldown_seconds \in 0..86400
    /\ ret.op = "get_state"
         => /\ ret.state.high_risk_required_approvals \in 2..5
            /\ ret.state.high_risk_cooldown_seconds \in 0..86400


\* C17: every successful create_draft yields a draft_id no earlier call has
\* yielded, so it overwrites no stored draft record and discards no recorded
\* approval, two calls within one clock second with the same content included.
C17_DraftIdsUnique ==
    [][ (ret'.op = "create_draft" /\ ret'.result = "ok")
        => /\ ret'.draft_id \notin DOMAIN drafts
           /\ \A d \in DOMAIN drafts : drafts'[d] = drafts[d] ]_vars


\* C18: a successful publish_draft of a draft that was published before
\* leaves the live profile equal to the draft content and creates a new backup
\* of what was live at that moment, and the backup the earlier publish took
\* still exists with its content.
C18_Republish ==
    [][ ( /\ ret'.op = "publish_draft" /\ ret'.result = "ok"
          /\ last_publish # NoPublish
          /\ last_publish.draft_id = ret'.draft_id )
        => LET draft == drafts[ret'.draft_id]
               p == draft.profile_name
               earlier == last_publish.backup_file
           IN /\ live'[p] = draft.content
              /\ ret'.has_backup
              /\ ret'.backup_file \notin DOMAIN backups
              /\ backups'[ret'.backup_file] = live[p]
              /\ last_publish.has_backup
                   => /\ earlier \in DOMAIN backups'
                      /\ backups'[earlier] = backups[earlier] ]_vars


\* C19: the guard of a fresh preview reports high_risk_enforced exactly when
\* some risk flag is HIGH and high_risk_two_man_rule is true; when it is not
\* enforced the guard reports approval_satisfied, cooldown_seconds 0 and
\* cooldown_remaining_seconds 0 whatever the approvals, and a publish_draft of
\* such a draft with a fresh digest, the phrase and open gates succeeds, with
\* zero approvals too.
C19_Enforced(d) ==
    /\ \E i \in 1..Len(preview_draft(d).risk_flags) :
           preview_draft(d).risk_flags[i].severity = "HIGH"
    /\ get_state.high_risk_two_man_rule

C19_NotEnforced ==
    /\ [](\A d \in DOMAIN drafts :
            LET g == preview_draft(d).publish_guard
            IN /\ g.high_risk_enforced = C19_Enforced(d)
               /\ ~g.high_risk_enforced
                    => /\ g.approval_satisfied
                       /\ g.cooldown_seconds = 0
                       /\ g.cooldown_remaining_seconds = 0)
    /\ [][ (ret'.op = "publish_draft" /\ ret'.draft_id \in DOMAIN drafts
              /\ ~C19_Enforced(ret'.draft_id))
           => ret'.result = "ok" ]_vars

\* a draft with a HIGH flag published with no approval at all after the
\* two-man rule was switched off
C19_Witness ==
    /\ ret.op = "publish_draft" /\ ret.result = "ok"
    /\ drafts[ret.draft_id].content = "high"
    /\ drafts[ret.draft_id].approvals = <<>>
    /\ ~stateFile.high_risk_two_man_rule


\* C20: for each numeric limit key written as a number on both sides with
\* old > 0 the flags hold HIGH iff new >= 2 * old, MEDIUM iff
\* 1.2 * old <= new < 2 * old, and nothing otherwise; for each environment
\* toggle key they hold HIGH iff the value differs at all, addition and
\* removal included; risk_level is the highest severity present, else LOW.
C20_IsNumber(texts, key) == key \in DOMAIN texts /\ texts[key].lit \in {"int", "decimal"}
C20_Scale(lit) == IF lit.lit = "decimal" THEN lit.k ELSE 0
\* the numbers old and new on a common denominator
C20_Old(old, new) == IF C20_Scale(old) >= C20_Scale(new) THEN old.n ELSE old.n * 10
C20_New(old, new) == IF C20_Scale(new) >= C20_Scale(old) THEN new.n ELSE new.n * 10

C20_NumericExpected(before, after, key) ==
    IF ~C20_IsNumber(before, key) \/ ~C20_IsNumber(after, key) THEN {}
    ELSE LET old == C20_Old(before[key], after[key])
             new == C20_New(before[key], after[key])
         IN IF old <= 0 THEN {}
            ELSE IF new >= 2 * old THEN {"HIGH"}
            ELSE IF 10 * new >= 12 * old THEN {"MEDIUM"}
            ELSE {}

C20_ToggleExpected(before, after, key) ==
    IF key \in DOMAIN before /\ key \in DOMAIN after
    THEN (IF before[key] # after[key] THEN {"HIGH"} ELSE {})
    ELSE IF key \in DOMAIN before \/ key \in DOMAIN after THEN {"HIGH"}
    ELSE {}

C20_Severities(flags, key) ==
    {flags[i].severity : i \in {j \in 1..Len(flags) : flags[j].key = key}}

C20_RiskClassification ==
    ret.op = "risk_flags_from_diff"
    => /\ \A i \in 1..Len(NumericLimitKeys) :
              C20_Severities(ret.risk_flags, NumericLimitKeys[i])
                  = C20_NumericExpected(ret.before, ret.after, NumericLimitKeys[i])
       /\ \A i \in 1..Len(EnvironmentToggleKeys) :
              C20_Severities(ret.risk_flags, EnvironmentToggleKeys[i])
                  = C20_ToggleExpected(ret.before, ret.after, EnvironmentToggleKeys[i])
       /\ LET present == {ret.risk_flags[i].severity : i \in 1..Len(ret.risk_flags)}
          IN ret.risk_level = IF "HIGH" \in present THEN "HIGH"
                              ELSE IF "MEDIUM" \in present THEN "MEDIUM"
                              ELSE "LOW"

(***************************************************************************)
(* C21: the audit log is append-only and in append order.  Every step      *)
(* keeps the events already in the log, unchanged and in place; a          *)
(* successful update_state, create_draft, validate_draft, approve_draft,   *)
(* publish_draft or rollback ends the log with its own event; and when a   *)
(* publish or a rollback overwrites an existing profile, the event just    *)
(* before that one is the config.backup of the call.                       *)
(***************************************************************************)
C21_EventOf ==
    [update_state |-> "state.update", create_draft |-> "draft.create",
     validate_draft |-> "draft.validate", approve_draft |-> "draft.approve",
     publish_draft |-> "draft.publish", rollback |-> "config.rollback"]

\* the profile a successful publish or rollback has written
C21_Target ==
    IF ret'.op = "publish_draft" THEN drafts[ret'.draft_id].profile_name
    ELSE ret'.target_profile

C21_AuditAppendOnly ==
    [][ /\ Len(audit') >= Len(audit)
        /\ SubSeq(audit', 1, Len(audit)) = audit
        /\ (ret'.result = "ok" /\ ret'.op \in DOMAIN C21_EventOf
              => /\ Len(audit') > Len(audit)
                 /\ audit'[Len(audit')].action = C21_EventOf[ret'.op]
                 /\ \A i \in (Len(audit) + 1)..(Len(audit') - 1) :
                        audit'[i].action = "config.backup")
        /\ (ret'.result = "ok" /\ ret'.op \in {"publish_draft", "rollback"}
              => IF live[C21_Target] # Absent
                 THEN /\ Len(audit') = Len(audit) + 2
                      /\ audit'[Len(audit) + 1].action = "config.backup"
                      /\ audit'[Len(audit) + 1].fields.profile_name = C21_Target
                 ELSE Len(audit') = Len(audit) + 1)
      ]_vars

\* a rollback has overwritten an existing profile after the five other calls
\* have each logged their event
C21_Witness ==
    /\ ret.op = "rollback" /\ ret.result = "ok" /\ ret.has_before_backup
    /\ Len(audit) >= 2
    /\ audit[Len(audit)].action = "config.rollback"
    /\ audit[Len(audit) - 1].action = "config.backup"
    /\ \A a \in {"state.update", "draft.create", "draft.validate", "draft.approve",
                 "draft.publish"} : CountEvents(a) >= 1

(***************************************************************************)
(* C22: update_state is an unserialized read-modify-write of the one state *)
(* record.  When two calls that patch different fields have both read the  *)
(* state before either has written, then once both have completed the      *)
(* stored state is the record of the one that wrote later: it holds that    *)
(* call's patch, and every field the other call patched has the value that  *)
(* was read, so the other patch is lost.                                    *)
(***************************************************************************)
\* a and b have completed, read the same stored state, patch different
\* fields, and b wrote after a
C22_Raced(a, b) ==
    /\ inflight[a].pc = "updated" /\ inflight[b].pc = "updated"
    /\ inflight[a].read = inflight[b].read
    /\ PatchKeys(inflight[a].patch) \cap PatchKeys(inflight[b].patch) = {}
    /\ inflight[a].order < inflight[b].order

C22_LostUpdate ==
    \A a \in Actors, b \in Actors :
        C22_Raced(a, b)
        => /\ stateFile = inflight[b].state
           /\ \A i \in 1..Len(inflight[b].patch) :
                  stateFile[inflight[b].patch[i][1]] = inflight[b].patch[i][2].v
           /\ \A i \in 1..Len(inflight[a].patch) :
                  /\ stateFile[inflight[a].patch[i][1]] = inflight[a].read[inflight[a].patch[i][1]]
                  /\ stateFile[inflight[a].patch[i][1]] # inflight[a].patch[i][2].v

\* alice's read_only_mode = true was stored and audited, and bob's
\* concurrent patch of another field has undone it
C22_Witness ==
    /\ C22_Raced("alice", "bob")
    /\ inflight["alice"].patch = <<<<"read_only_mode", BoolV(TRUE)>>>>
    /\ \E i \in 1..Len(audit) : /\ audit[i].action = "state.update"
                                /\ audit[i].actor = "alice"
                                /\ audit[i].fields.state.read_only_mode
    /\ ~stateFile.read_only_mode

(***************************************************************************)
(* C23: list_backups returns the backups newest first by file name, and    *)
(* with a profile filter P that is not empty it returns only backups that  *)
(* were taken of profile P.                                                *)
(***************************************************************************)
C23_ListBackups ==
    ret.op = "list_backups"
    => /\ \A i \in 1..Len(ret.backups), j \in 1..Len(ret.backups) :
              i < j => ret.backups[i].ts >= ret.backups[j].ts
       /\ ret.profile_name # ""
              => \A i \in 1..Len(ret.backups) : ret.backups[i].profile = ret.profile_name

(***************************************************************************)
(* C24: publish_draft evaluates its gates in a fixed order and reports the *)
(* first that fails: read_only_mode, publish_frozen, the latest-run gate,  *)
(* the draft lookup with the fresh preview, the preview digest, the        *)
(* confirm phrase, the approval quorum, the cooldown, the validation of    *)
(* the content.  So a publish of a draft that does not exist is reported   *)
(* as blocked, not as not found, while read_only_mode is true.             *)
(***************************************************************************)
C24_Gates == 1..9

\* does gate g refuse the call; a gate after the lookup refuses no call
\* whose draft does not exist
C24_Refuses(g, d, dg, ph) ==
    IF g = 1 THEN get_state.read_only_mode
    ELSE IF g = 2 THEN get_state.publish_frozen
    ELSE IF g = 3 THEN validate_latest_gate(get_state) # "ok"
    ELSE IF g = 4 THEN d \notin DOMAIN drafts
    ELSE IF d \notin DOMAIN drafts THEN FALSE
    ELSE IF g = 5 THEN dg # preview_draft(d).publish_guard.preview_digest
    ELSE IF g = 6 THEN ph # preview_draft(d).publish_guard.confirm_phrase
    ELSE IF g = 7 THEN ~preview_draft(d).publish_guard.approval_satisfied
    ELSE IF g = 8 THEN preview_draft(d).publish_guard.cooldown_remaining_seconds > 0
    ELSE ~validate_config_text(drafts[d].content).ok

C24_Report(g) ==
    IF g = 3 THEN validate_latest_gate(get_state)
    ELSE <<"blocked:read_only_mode", "blocked:publish_frozen", "", "notfound:draft",
           "blocked:preview_digest", "blocked:confirm_phrase", "blocked:approvals",
           "blocked:cooldown", "blocked:validation">>[g]

C24_Expected(d, dg, ph) ==
    IF \A g \in C24_Gates : ~C24_Refuses(g, d, dg, ph) THEN "ok"
    ELSE C24_Report(CHOOSE g \in C24_Gates :
                        /\ C24_Refuses(g, d, dg, ph)
                        /\ \A h \in 1..(g - 1) : ~C24_Refuses(h, d, dg, ph))

C24_GateOrder ==
    [][ \A d \in DraftIdInputs :
          \A dg \in DigestInputs(d), ph \in PhraseInputs(d) :
              PublishDraft(d, "release", dg, ph)
              => ret'.result = C24_Expected(d, dg, ph) ]_vars

\* a publish of a draft that does not exist was refused for read_only_mode
C24_Witness ==
    /\ ret.op = "publish_draft"
    /\ ret.draft_id \notin DOMAIN drafts
    /\ ret.result = "blocked:read_only_mode"

(***************************************************************************)
(* C25: every step keeps every stored draft, with its draft_id,            *)
(* profile_name, content, content digest, actor, note and created_at;      *)
(* validate_draft changes only the validation and the validator metadata   *)
(* and keeps the approvals; approve_draft changes only the approvals and   *)
(* keeps the validation.                                                   *)
(***************************************************************************)
C25_Identity(draft) ==
    [draft_id |-> draft.draft_id, profile_name |-> draft.profile_name,
     content |-> draft.content, content_sha256 |-> draft.content_sha256,
     actor |-> draft.actor, note |-> draft.note, created_at_utc |-> draft.created_at_utc]

C25_Validation(draft) ==
    [validation |-> draft.validation, validated_at_utc |-> draft.validated_at_utc,
     validated_by |-> draft.validated_by]

\* the parts of the claim about validate_draft and approve_draft
C25_Mutators ==
    [][ \A d \in DOMAIN drafts :
          /\ ret'.op = "validate_draft"
                => d \in DOMAIN drafts' /\ C25_Identity(drafts'[d]) = C25_Identity(drafts[d])
                   /\ drafts'[d].approvals = drafts[d].approvals
          /\ ret'.op = "approve_draft"
                => d \in DOMAIN drafts' /\ C25_Identity(drafts'[d]) = C25_Identity(drafts[d])
                   /\ C25_Validation(drafts'[d]) = C25_Validation(drafts[d]) ]_vars

C25_DraftFrame ==
    [][ \A d \in DOMAIN drafts :
          /\ d \in DOMAIN drafts'
          /\ C25_Identity(drafts'[d]) = C25_Identity(drafts[d])
          /\ ret'.op = "validate_draft" => drafts'[d].approvals = drafts[d].approvals
          /\ ret'.op = "approve_draft"
                => C25_Validation(drafts'[d]) = C25_Validation(drafts[d]) ]_vars

(***************************************************************************)
(* C26: preview_draft is read-only on governed data.  A preview changes no *)
(* draft record, no live profile, no backup, not the last_publish record   *)
(* and not the audit log, and what it returns is computed from the draft   *)
(* record, the live profile and the governance state as they are stored at *)
(* the call, not from an earlier preview.                                  *)
(***************************************************************************)
C26_PreviewReadOnly ==
    [][ ret'.op = "preview_draft"
        => /\ UNCHANGED <<drafts, live, backups, last_publish, audit>>
           /\ ret'.result = "ok"
                 => LET draft == drafts[ret'.draft_id]
                        base == live[draft.profile_name]
                        diff == DiffOf[base, draft.content]
                        flags == RiskFlagsOf[base, draft.content]
                    IN /\ held'.diff = diff
                       /\ held'.risk_flags = flags
                       /\ held'.preview_digest =
                              preview_digest(draft.draft_id, diff, flags)
                       /\ held'.confirm_phrase = ConfirmPhrase(draft.draft_id) ]_vars

\* a preview of an approved draft whose live profile has been edited since
\* the draft was created, and that differs in what it read from the
\* caller's previous preview
C26_Witness ==
    /\ ret.op = "preview_draft" /\ ret.result = "ok"
    /\ ~held.again
    /\ held.read.draft.approvals # <<>>
    /\ held.read.base # "base"
    /\ audit # <<>>

(***************************************************************************)
(* C27: publish_draft and rollback read the governance state once, at      *)
(* their start.  An update_state that sets read_only_mode or               *)
(* publish_frozen while such a call is past its freeze check leaves the    *)
(* call in flight, and the call's write of the live profile then succeeds  *)
(* although the stored state is frozen.                                    *)
(***************************************************************************)
C27_Writing(call) ==
    \/ call.pc = "rollback_write"
    \/ call.pc = "replace" /\ call.target = "live"
          /\ TmpOf(LivePath(call.profile_name)) \in DOMAIN tmpFiles

C27_Written(call) ==
    IF call.pc = "rollback_write" THEN call.content
    ELSE tmpFiles[TmpOf(LivePath(call.profile_name))]

C27_FreezeDoesNotStopWrite ==
    [][ /\ (~Frozen /\ Frozen') => inflight' = inflight
        /\ Frozen
             => \A a \in Actors :
                    (C27_Writing(inflight[a]) /\ inflight'[a] # inflight[a])
                        => /\ live'[inflight[a].profile_name] = C27_Written(inflight[a])
                           /\ ret'.result = "ok"
                           /\ Frozen' ]_vars

\* a publish that passed its freeze check and took its backup, then an
\* update_state that froze publishing, then the publish's rename onto the
\* live profile
C27_Witness ==
    /\ Frozen
    /\ ret.op = "file_step"
    /\ audit # <<>> /\ audit[Len(audit)].action = "state.update"
    /\ \E a \in Actors :
          /\ inflight[a].pc = "tmp_open" /\ inflight[a].target = "last_publish"
          /\ live[inflight[a].profile_name] = inflight[a].content
          /\ inflight[a].content # "base"

(***************************************************************************)
(* C28: rollback is gated only by the freeze, the safety of the two names  *)
(* and the existence of the backup.  It succeeds exactly when the stored   *)
(* state is neither read-only nor publish-frozen, the target profile name  *)
(* is safe, the backup name is safe and the backup exists: whatever the    *)
(* approvals, the cooldown, the latest-run verdicts, the validity of the   *)
(* restored text, its risk against the live text, and the profile the      *)
(* backup was taken of.                                                    *)
(***************************************************************************)
C28_Passes(backup_file, target_profile) ==
    /\ ~get_state.read_only_mode
    /\ ~get_state.publish_frozen
    /\ target_profile \in Profiles
    /\ backup_file # UnsafeBackup
    /\ backup_file \in DOMAIN backups

C28_RollbackGates ==
    [][ \A b \in BackupInputs, p \in Profiles \cup UnsafeNames :
            Rollback(b, p, "release")
                => /\ ret'.result = "ok" <=> C28_Passes(b, p)
                   /\ ret'.result = "ok" => live'[p] = backups[b] ]_vars

\* a rollback that succeeded while the latest overall verdict is FAIL, no
\* draft holds an approval and the cooldown setting is positive; it put a
\* text that fails validation, and is a HIGH-risk change of the text it
\* replaced, onto a profile other than the one the backup was taken of
C28_Witness ==
    /\ ret.op = "rollback" /\ ret.result = "ok"
    /\ verdict.overall = "FAIL"
    /\ get_state.require_latest_pass
    /\ cooldown_seconds(get_state) > 0
    /\ \A d \in DOMAIN drafts : drafts[d].approvals = <<>>
    /\ ret.source_backup_file.profile # ret.target_profile
    /\ ret.live_before # Absent
    /\ ~validate_config_text(ret.source_content).ok
    /\ risk_level(RiskFlagsOf[ret.live_before, ret.source_content]) = "HIGH"
    /\ live[ret.target_profile] = ret.source_content

(***************************************************************************)
(* C29: approve_draft writes the approval to the draft record before it    *)
(* recomputes the preview and before it audits.  Every approve_draft on an *)
(* existing draft stores the caller's approval; when the stored governance *)
(* state is corrupt the call returns an error and appends no audit event,  *)
(* and otherwise it returns the guard and appends one draft.approve event. *)
(***************************************************************************)
C29_ApprovalStoredFirst ==
    [][ \A d \in DOMAIN drafts, a \in Actors, note \in {"checked"} :
            ApproveDraft(d, a, note)
                => /\ drafts' = [drafts EXCEPT ![d] = ApprovedDraft(drafts[d], a, note)]
                   /\ \E i \in 1..Len(drafts'[d].approvals) :
                          drafts'[d].approvals[i] =
                              [actor |-> a, approved_at_utc |-> now, note |-> note]
                   /\ IF stateFile = CorruptState
                      THEN /\ ret'.result \notin {"ok", "notfound:draft"}
                           /\ audit' = audit
                      ELSE /\ ret'.result = "ok"
                           /\ Len(audit') = Len(audit) + 1
                           /\ audit'[Len(audit')].action = "draft.approve"
                           /\ audit'[Len(audit')].fields.draft_id = d ]_vars

\* a preview, taken after the state file was removed again, that counts an
\* approval for which the log holds no draft.approve event
C29_Witness ==
    /\ ret.op = "preview_draft" /\ ret.result = "ok"
    /\ stateFile # CorruptState
    /\ CountEvents("draft.approve") = 0
    /\ held.read.draft.approvals # <<>>
    /\ PreviewOf(drafts[held.draft_id], get_state, live).publish_guard.current_approval_count
           = Len(drafts[held.draft_id].approvals)
    /\ Len(drafts[held.draft_id].approvals) > 0

(***************************************************************************)
(* C30: the cooldown runs from the latest stored approval time, and every  *)
(* approve_draft stamps the current time.  For every draft the remaining   *)
(* cooldown is the cooldown less the seconds since the greatest stored     *)
(* approval time (0 when not enforced or not approved); and in the state   *)
(* an approve_draft returns in, the caller's approval carries the current  *)
(* time and, on a high-risk-enforced draft with a positive cooldown, the   *)
(* remaining cooldown is the whole cooldown, in the call's answer and in a *)
(* preview alike.                                                          *)
(***************************************************************************)
C30_LatestTime(approvals) ==
    CHOOSE t \in {approvals[i].approved_at_utc : i \in 1..Len(approvals)} :
        \A i \in 1..Len(approvals) : approvals[i].approved_at_utc <= t

C31_DigestOf(d) == preview_draft(d).publish_guard.preview_digest

C31_DigestStable ==
    [][ /\ ret'.op \in {"approve_draft", "validate_draft", "update_state", "tick"}
            => \A d \in DOMAIN drafts :
                   /\ d \in DOMAIN drafts'
                   /\ C31_DigestOf(d)' = C31_DigestOf(d)
        /\ (/\ held.seen
            /\ held.draft_id \in DOMAIN drafts
            /\ live[drafts[held.draft_id].profile_name] = held.read.base
            /\ PublishDraft(held.draft_id, "release", held.preview_digest,
                            held.confirm_phrase))
            => ret'.result # "blocked:preview_digest" ]_vars

\* a publish accepted with the digest of a preview taken before any approval
\* and in an earlier second, after two approvals, a validation and a state
\* update
C31_Witness ==
    /\ ret.op = "publish_draft" /\ ret.result = "ok"
    /\ held.seen /\ held.draft_id = ret.draft_id
    /\ held.read.draft.approvals = <<>>
    /\ held.read.state.updated_at_utc < now
    /\ Len(drafts[ret.draft_id].approvals) >= 2
    /\ CountEvents("draft.validate") > 0
    /\ CountEvents("state.update") > 0
    /\ risk_level(held.risk_flags) = "HIGH"
    /\ last_publish.preview_digest = held.preview_digest

(***************************************************************************)
(* C32: approvals belong to the draft, not to the diff they were given     *)
(* for.  The current_approval_count of a draft is the number of distinct   *)
(* actors in its stored approvals, an edit of a live profile and an        *)
(* update_state leave the stored approvals and the count of every draft as *)
(* they were, and on a high-risk-enforced draft the quorum is met exactly  *)
(* when that count reaches the required one.                               *)
(***************************************************************************)
C32_Guard(d) == preview_draft(d).publish_guard

C32_ApprovalsBoundToDraft ==
    [][ /\ \A d \in DOMAIN drafts :
               /\ C32_Guard(d).current_approval_count
                      = Cardinality(ActorsOf(drafts[d].approvals))
               /\ C32_Guard(d).high_risk_enforced
                      => (C32_Guard(d).approval_satisfied
                             <=> C32_Guard(d).current_approval_count
                                     >= C32_Guard(d).required_approval_count)
        /\ ret'.op \in {"edit_live", "update_state"}
               => \A d \in DOMAIN drafts :
                      /\ d \in DOMAIN drafts'
                      /\ drafts'[d].approvals = drafts[d].approvals
                      /\ (C32_Guard(d).current_approval_count)'
                             = C32_Guard(d).current_approval_count ]_vars

\* a draft approved by two actors while it was a LOW-risk change of the live
\* text (the kept preview), published on those approvals alone, under the
\* two-man rule, over a live text of which it is a HIGH-risk change (the
\* backup the publish took)
C32_Witness ==
    /\ ret.op = "publish_draft" /\ ret.result = "ok" /\ ret.has_backup
    /\ held.seen /\ held.draft_id = ret.draft_id
    /\ risk_level(held.risk_flags) = "LOW"
    /\ Cardinality(ActorsOf(held.read.draft.approvals)) = 2
    /\ drafts[ret.draft_id].approvals = held.read.draft.approvals
    /\ backups[ret.backup_file] # held.read.base
    /\ risk_level(RiskFlagsOf[backups[ret.backup_file], drafts[ret.draft_id].content]) = "HIGH"
    /\ get_state.high_risk_two_man_rule

(***************************************************************************)
(* C33: risk is assessed against the live text at the publish, step by     *)
(* step.  A successful publish carries the digest of the diff and flags of *)
(* the draft against the live text it replaces, and without approvals that *)
(* diff has no HIGH flag; and while the live value of a numeric limit key  *)
(* is 0 or absent no draft has a flag for that key, whatever value it      *)
(* sets.  The witness is the chain of such publishes that doubles a limit. *)
(***************************************************************************)
C33_LiveValue(d, key) ==
    Get(extract_scalar_paths(live[drafts[d].profile_name]), key)

C33_RiskAgainstLive ==
    [][ /\ \A d \in DOMAIN drafts :
               (PublishDraft(d, "release", FreshDigest(d), ConfirmPhrase(d))
                    /\ ret'.result = "ok")
                   => LET base == live[drafts[d].profile_name]
                          flags == risk_flags_from_diff(extract_scalar_paths(base),
                                       extract_scalar_paths(drafts[d].content))
                      IN /\ last_publish'.preview_digest
                                = preview_digest(d, DiffOf[base, drafts[d].content], flags)
                         /\ drafts[d].approvals = <<>> => ~high_risk(flags)
        /\ \A d \in DOMAIN drafts : \A k \in 1..Len(NumericLimitKeys) :
               C33_LiveValue(d, NumericLimitKeys[k]) \in {NullV, IntV(0)}
                   => \A i \in 1..Len(preview_draft(d).risk_flags) :
                          preview_draft(d).risk_flags[i].key # NumericLimitKeys[k] ]_vars

\* two publishes on p1.yaml and no other, neither with a HIGH flag, no
\* approval given and the two-man rule on, after which the live
\* risk.max_abs_notional_usd is at least twice the one of the first text
C33_Witness ==
    /\ ret.op = "publish_draft" /\ ret.result = "ok"
    /\ CountEvents("draft.publish") = 2
    /\ CountEvents("draft.approve") = 0
    /\ get_state.high_risk_two_man_rule
    /\ \A i \in 1..Len(audit) :
           audit[i].action = "draft.publish"
               => /\ audit[i].fields.profile_name = "p1.yaml"
                  /\ ~high_risk(audit[i].fields.preview_digest.sha256.risk_flags)
    /\ Get(extract_scalar_paths(live["p1.yaml"]), "risk.max_abs_notional_usd").v
           >= 2 * Get(extract_scalar_paths("base"), "risk.max_abs_notional_usd").v

(***************************************************************************)
(* C34: the freeze never blocks update_state, create_draft, validate_draft *)
(* or approve_draft.  Whatever the stored flags, a create_draft with a     *)
(* safe profile name, a validate_draft and an approve_draft of an existing *)
(* draft succeed and a call on a missing draft reports the missing draft;  *)
(* the update_state call that sets both flags to false succeeds and leaves *)
(* the state unfrozen; so a frozen engine whose operator keeps asking for  *)
(* it is eventually unfrozen.                                              *)
(***************************************************************************)
C34_FreezeCanBeLifted ==
    /\ [][ /\ \A p \in Profiles :
                  CreateDraft(p, "low", "dev", "") => ret'.result = "ok"
           /\ \A d \in DraftIdInputs :
                  /\ ValidateDraft(d, "alice")
                         => ret'.result = IF d \in DOMAIN drafts THEN "ok"
                                          ELSE "notfound:draft"
                  /\ ApproveDraft(d, "alice", "checked")
                         => ret'.result = IF d \in DOMAIN drafts THEN "ok"
                                          ELSE "notfound:draft"
           /\ \A patch \in FreezePatches :
                  UpdateState(patch, "admin") => ret'.result = "ok"
           /\ UpdateState(ThawPatch, "admin") => ~Frozen' ]_vars
    /\ Frozen ~> ~Frozen

\* a publish accepted after a freeze was lifted, of a draft that was created
\* while the engine was frozen
C34_Witness ==
    /\ ret.op = "publish_draft" /\ ret.result = "ok"
    /\ ~Frozen
    /\ \E i, j, k \in 1..Len(audit) :
          /\ i < j /\ j < k
          /\ audit[i].action = "state.update"
          /\ audit[i].fields.state.read_only_mode \/ audit[i].fields.state.publish_frozen
          /\ audit[j].action = "draft.create"
          /\ audit[k].action = "state.update"
          /\ ~audit[k].fields.state.read_only_mode
          /\ ~audit[k].fields.state.publish_frozen
          /\ \A m \in (i + 1)..(k - 1) : audit[m].action # "state.update"

============================================================================
